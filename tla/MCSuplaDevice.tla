--------------------------- MODULE MCSuplaDevice ---------------------------
EXTENDS SuplaDevice

\* Normal mode and software updates, with a server that accepts or refuses the device.
NormalModes == {"NORMAL"}
NormalCalls == {"REGISTER_OK", "REGISTER_NOK", "VERSION_ERROR", "OTHER"}
RecoveryCalls == {"REGISTER_OK", "REGISTER_NOK", "OTHER"}
BacklogCalls == {"REGISTER_OK", "OTHER"}
NormalActions == {"CHECK_SW_UPDATE"}

\* Configuration mode, entered and left in every way there is.
ConfigModes == {"NORMAL", "CONFIG", "SW_UPDATE"}
ConfigCalls == {"REGISTER_OK", "ENTER_CFG_MODE"}
ConfigActions == {"SOFT_RESTART", "ENTER_CONFIG_MODE", "TOGGLE_CONFIG_MODE",
                  "RESET_TO_FACTORY_SETTINGS"}
ConfigRequests == {"SHOW", "SAVE"}
=============================================================================
