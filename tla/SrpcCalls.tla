----------------------------- MODULE SrpcCalls -----------------------------
(***************************************************************************)
(* The calls of srpc: what each sending function puts into a packet, what  *)
(* srpc_getdata accepts and where it copies it, and from which protocol    *)
(* version a call may be used.  The two halves of srpc.c were written      *)
(* apart and are built with different limits, so they may disagree.        *)
(*                                                                         *)
(* Only sizes are kept.  The structures are packed; SizeOf has their sizes *)
(* in bytes.  Names of calls lack SUPLA_ and CALL_.                        *)
(***************************************************************************)
EXTENDS Integers, Sequences
LOCAL INSTANCE SequencesExt
LOCAL INSTANCE TLC

\* Builds: an Arduino Mega, any other device, and the server (the client is like the server).
Builds == {"mega", "device", "server"}
MaxDataSize == [mega |-> 1248, device |-> 3264, server |-> 10240]
BufferMaxSize == [mega |-> 1024, device |-> 2048, server |-> 131072]
ChannelMaxCount == [mega |-> 32, device |-> 128, server |-> 128]
ExtendedValueSize == [mega |-> 256, device |-> 1024, server |-> 1024]

CaptionMax == 401
SenderNameMax == 201
PackMax == 20
Newest == 18

-----------------------------------------------------------------------------
(***************************************************************************)
(* proto.h: sizes of the structures, part by part of the file.             *)
(***************************************************************************)
PacketHeader == 18
TagSize == 5

LinkStructs(b) ==
  [TSDC_SuplaGetVersionResult |-> 23, TSDC_SuplaVersionError |-> 2,
   TDCS_SuplaPingServer |-> 16, TDCS_SuplaPingServer_COMPAT |-> 8,
   TSDC_SuplaPingServerResult |-> 16, TDCS_SuplaSetActivityTimeout |-> 1,
   TSDC_SuplaSetActivityTimeoutResult |-> 3]

LocationStructs(b) ==
  [TSC_SuplaLocation |-> 9 + CaptionMax,
   TSC_SuplaLocationPack |-> 8 + PackMax * (9 + CaptionMax)]

RegisterStructs(b) ==
  LET channels(item) == item * ChannelMaxCount[b]
  IN  [TDS_SuplaDeviceChannel |-> 13, TDS_SuplaDeviceChannel_B |-> 21,
       TDS_SuplaDeviceChannel_C |-> 25,
       TDS_SuplaRegisterDevice |-> 276 + channels(13),
       TDS_SuplaRegisterDevice_B |-> 276 + channels(21),
       TDS_SuplaRegisterDevice_C |-> 341 + channels(21),
       TDS_SuplaRegisterDevice_D |-> 576 + channels(21),
       TDS_SuplaRegisterDevice_E |-> 584 + channels(25),
       TSD_SuplaRegisterDeviceResult |-> 7]

ValueStructs(b) ==
  [TDS_SuplaDeviceChannelValue |-> 9, TDS_SuplaDeviceChannelValue_B |-> 10,
   TDS_SuplaDeviceChannelValue_C |-> 14,
   TDS_SuplaDeviceChannelExtendedValue |-> 6 + ExtendedValueSize[b],
   TSD_SuplaChannelNewValue |-> 17, TSD_SuplaChannelGroupNewValue |-> 22,
   TDS_SuplaChannelNewValueResult |-> 6,
   TSC_SuplaChannelValue |-> 22, TSC_SuplaChannelValue_B |-> 23,
   TSC_SuplaChannelValuePack |-> 8 + PackMax * 22,
   TSC_SuplaChannelValuePack_B |-> 8 + PackMax * 23,
   TSC_SuplaChannelExtendedValuePack |-> 12 + (MaxDataSize[b] - 50)]

ChannelStructs(b) ==
  [TSC_SuplaChannel |-> 34 + CaptionMax, TSC_SuplaChannel_B |-> 43 + CaptionMax,
   TSC_SuplaChannel_C |-> 59 + CaptionMax, TSC_SuplaChannel_D |-> 60 + CaptionMax,
   TSC_SuplaChannelPack |-> 8 + PackMax * (34 + CaptionMax),
   TSC_SuplaChannelPack_B |-> 8 + PackMax * (43 + CaptionMax),
   TSC_SuplaChannelPack_C |-> 8 + PackMax * (59 + CaptionMax),
   TSC_SuplaChannelPack_D |-> 8 + PackMax * (60 + CaptionMax)]

GroupAndSceneStructs(b) ==
  [TSC_SuplaChannelGroup |-> 25 + CaptionMax, TSC_SuplaChannelGroup_B |-> 29 + CaptionMax,
   TSC_SuplaChannelGroupPack |-> 8 + PackMax * (25 + CaptionMax),
   TSC_SuplaChannelGroupPack_B |-> 8 + PackMax * (29 + CaptionMax),
   TSC_SuplaChannelGroupRelation |-> 9, TSC_SuplaChannelGroupRelationPack |-> 8 + 100 * 9,
   TSC_SuplaScene |-> 19 + CaptionMax,
   TSC_SuplaScenePack |-> 8 + PackMax * (19 + CaptionMax),
   TSC_SuplaSceneState |-> 19 + SenderNameMax,
   TSC_SuplaSceneStatePack |-> 8 + PackMax * (19 + SenderNameMax)]

ClientStructs(b) ==
  [TCS_Action |-> 514, TCS_ActionWithAuth |-> 904, TSC_ActionExecutionResult |-> 16,
   TCS_SuplaRegisterClient |-> 275, TCS_SuplaRegisterClient_B |-> 340,
   TCS_SuplaRegisterClient_C |-> 575, TCS_SuplaRegisterClient_D |-> 639,
   TSC_SuplaRegisterClientResult |-> 19, TSC_SuplaRegisterClientResult_B |-> 27,
   TSC_SuplaRegisterClientResult_C |-> 31]

RequestStructs(b) ==
  [TCS_SuplaChannelNewValue |-> 9, TCS_SuplaChannelNewValue_B |-> 12, TCS_SuplaNewValue |-> 13,
   TSC_SuplaEvent |-> 20 + SenderNameMax, TDS_FirmwareUpdateParams |-> 17,
   TSD_FirmwareUpdate_UrlResult |-> 208, TSDC_RegistrationEnabled |-> 8,
   TSC_OAuthTokenRequestResult |-> 265]

SuperUserStructs(b) ==
  [TCS_SuperUserAuthorizationRequest |-> 320, TSC_SuperUserAuthorizationResult |-> 4]

CalCfgStructs(b) ==
  [TCS_DeviceCalCfgRequest |-> 144, TCS_DeviceCalCfgRequest_B |-> 145,
   TSC_DeviceCalCfgResult |-> 144, TSD_DeviceCalCfgRequest |-> 149,
   TDS_DeviceCalCfgResult |-> 148]

StateStructs(b) ==
  [TSDC_UserLocalTimeResult |-> 12 + 51, TCSD_ChannelStateRequest |-> 8,
   TDSC_ChannelState |-> 50, TCS_ChannelBasicCfgRequest |-> 4]

SettingStructs(b) ==
  [TSC_ChannelBasicCfg |-> 259 + CaptionMax, TCS_SetChannelFunction |-> 8,
   TSC_SetChannelFunctionResult |-> 9, TCS_SetCaption |-> 8 + CaptionMax,
   TSC_SetCaptionResult |-> 9 + CaptionMax, TSC_ClientsReconnectRequestResult |-> 1,
   TCS_SetRegistrationEnabled |-> 8, TSC_SetRegistrationEnabledResult |-> 1,
   TCS_DeviceReconnectRequest |-> 4, TSC_DeviceReconnectRequestResult |-> 5,
   TSD_ChannelFunctions |-> 1 + 4 * ChannelMaxCount[b],
   TDS_GetChannelConfigRequest |-> 6, TSD_ChannelConfig |-> 136,
   TCS_TimerArmRequest |-> 9, TDS_ActionTrigger |-> 15]

SizeOf ==
  [b \in Builds |->
     LinkStructs(b) @@ LocationStructs(b) @@ RegisterStructs(b) @@ ValueStructs(b)
     @@ ChannelStructs(b) @@ GroupAndSceneStructs(b) @@ ClientStructs(b) @@ RequestStructs(b)
     @@ SuperUserStructs(b) @@ CalCfgStructs(b) @@ StateStructs(b) @@ SettingStructs(b)]

-----------------------------------------------------------------------------
(***************************************************************************)
(* The sending half.  A call sends a whole structure, or one that ends in  *)
(* an array of most elements of which it sends n, or no data.              *)
(***************************************************************************)
NoData == [struct |-> "none", element |-> 0, least |-> 0, most |-> 0]
Whole(s) == [NoData EXCEPT !.struct = s]
Ending(s, element, least, most) == [struct |-> s, element |-> element, least |-> least, most |-> most]

\* The bytes of a call with n elements.
SentSize(b, e, n) ==
  IF e.struct = "none" THEN 0 ELSE SizeOf[b][e.struct] - e.element * (e.most - n)

CommonSent(b) ==
  [DCS_GETVERSION |-> NoData,
   SDC_GETVERSION_RESULT |-> Whole("TSDC_SuplaGetVersionResult"),
   SDC_VERSIONERROR |-> Whole("TSDC_SuplaVersionError"),
   DCS_PING_SERVER |-> Whole("TDCS_SuplaPingServer"),
   SDC_PING_SERVER_RESULT |-> Whole("TSDC_SuplaPingServerResult"),
   DCS_SET_ACTIVITY_TIMEOUT |-> Whole("TDCS_SuplaSetActivityTimeout"),
   SDC_SET_ACTIVITY_TIMEOUT_RESULT |-> Whole("TSDC_SuplaSetActivityTimeoutResult"),
   DCS_GET_REGISTRATION_ENABLED |-> NoData,
   SDC_GET_REGISTRATION_ENABLED_RESULT |-> Whole("TSDC_RegistrationEnabled"),
   DCS_GET_USER_LOCALTIME |-> NoData,
   DCS_GET_USER_LOCALTIME_RESULT |-> Ending("TSDC_UserLocalTimeResult", 1, 0, 51),
   CSD_GET_CHANNEL_STATE |-> Whole("TCSD_ChannelStateRequest"),
   DSC_CHANNEL_STATE_RESULT |-> Whole("TDSC_ChannelState")]

RegistrationSent(b) ==
  LET with(s, channel) == Ending(s, SizeOf[b][channel], 0, ChannelMaxCount[b])
  IN  [DS_REGISTER_DEVICE |-> with("TDS_SuplaRegisterDevice", "TDS_SuplaDeviceChannel"),
       DS_REGISTER_DEVICE_B |-> with("TDS_SuplaRegisterDevice_B", "TDS_SuplaDeviceChannel_B"),
       DS_REGISTER_DEVICE_C |-> with("TDS_SuplaRegisterDevice_C", "TDS_SuplaDeviceChannel_B"),
       DS_REGISTER_DEVICE_D |-> with("TDS_SuplaRegisterDevice_D", "TDS_SuplaDeviceChannel_B"),
       DS_REGISTER_DEVICE_E |-> with("TDS_SuplaRegisterDevice_E", "TDS_SuplaDeviceChannel_C"),
       SD_REGISTER_DEVICE_RESULT |-> Whole("TSD_SuplaRegisterDeviceResult")]

\* The answer to GET_FIRMWARE_UPDATE_URL is its first byte when there is no firmware: an array
\* of the 207 other bytes of which all or none are sent.
DeviceSent(b) ==
  [DS_GET_FIRMWARE_UPDATE_URL |-> Whole("TDS_FirmwareUpdateParams"),
   SD_CHANNEL_SET_VALUE |-> Whole("TSD_SuplaChannelNewValue"),
   SD_CHANNELGROUP_SET_VALUE |-> Whole("TSD_SuplaChannelGroupNewValue"),
   DS_CHANNEL_SET_VALUE_RESULT |-> Whole("TDS_SuplaChannelNewValueResult"),
   SD_GET_FIRMWARE_UPDATE_URL_RESULT |-> Ending("TSD_FirmwareUpdate_UrlResult", 207, 0, 1),
   DS_DEVICE_CHANNEL_VALUE_CHANGED |-> Whole("TDS_SuplaDeviceChannelValue"),
   DS_DEVICE_CHANNEL_VALUE_CHANGED_B |-> Whole("TDS_SuplaDeviceChannelValue_B"),
   DS_DEVICE_CHANNEL_VALUE_CHANGED_C |-> Whole("TDS_SuplaDeviceChannelValue_C"),
   DS_DEVICE_CHANNEL_EXTENDEDVALUE_CHANGED |->
     Ending("TDS_SuplaDeviceChannelExtendedValue", 1, 1, ExtendedValueSize[b]),
   SD_DEVICE_CALCFG_REQUEST |-> Ending("TSD_DeviceCalCfgRequest", 1, 0, 128),
   DS_DEVICE_CALCFG_RESULT |-> Ending("TDS_DeviceCalCfgResult", 1, 0, 128),
   DS_GET_CHANNEL_FUNCTIONS |-> NoData,
   SD_GET_CHANNEL_FUNCTIONS_RESULT |-> Ending("TSD_ChannelFunctions", 4, 0, ChannelMaxCount[b]),
   DS_GET_CHANNEL_CONFIG |-> Whole("TDS_GetChannelConfigRequest"),
   SD_GET_CHANNEL_CONFIG_RESULT |-> Ending("TSD_ChannelConfig", 1, 0, 128),
   DS_ACTIONTRIGGER |-> Whole("TDS_ActionTrigger")]

ClientSent(b) ==
  [CS_REGISTER_CLIENT |-> Whole("TCS_SuplaRegisterClient"),
   CS_REGISTER_CLIENT_B |-> Whole("TCS_SuplaRegisterClient_B"),
   CS_REGISTER_CLIENT_C |-> Whole("TCS_SuplaRegisterClient_C"),
   CS_REGISTER_CLIENT_D |-> Whole("TCS_SuplaRegisterClient_D"),
   SC_REGISTER_CLIENT_RESULT |-> Whole("TSC_SuplaRegisterClientResult"),
   SC_REGISTER_CLIENT_RESULT_B |-> Whole("TSC_SuplaRegisterClientResult_B"),
   SC_REGISTER_CLIENT_RESULT_C |-> Whole("TSC_SuplaRegisterClientResult_C"),
   SC_LOCATION_UPDATE |-> Ending("TSC_SuplaLocation", 1, 0, CaptionMax),
   SC_CHANNEL_UPDATE |-> Ending("TSC_SuplaChannel", 1, 0, CaptionMax),
   SC_CHANNEL_UPDATE_B |-> Ending("TSC_SuplaChannel_B", 1, 0, CaptionMax),
   SC_CHANNEL_UPDATE_C |-> Ending("TSC_SuplaChannel_C", 1, 0, CaptionMax),
   SC_CHANNEL_UPDATE_D |-> Ending("TSC_SuplaChannel_D", 1, 0, CaptionMax)]

ValueSent(b) ==
  [SC_CHANNEL_VALUE_UPDATE |-> Whole("TSC_SuplaChannelValue"),
   SC_CHANNEL_VALUE_UPDATE_B |-> Whole("TSC_SuplaChannelValue_B"),
   SC_CHANNELGROUP_RELATION_PACK_UPDATE |-> Ending("TSC_SuplaChannelGroupRelationPack", 9, 1, 100),
   SC_CHANNELVALUE_PACK_UPDATE |-> Ending("TSC_SuplaChannelValuePack", 22, 1, PackMax),
   SC_CHANNELVALUE_PACK_UPDATE_B |-> Ending("TSC_SuplaChannelValuePack_B", 23, 1, PackMax),
   SC_CHANNELEXTENDEDVALUE_PACK_UPDATE |->
     Ending("TSC_SuplaChannelExtendedValuePack", 1, 1, MaxDataSize[b] - 50),
   CS_GET_NEXT |-> NoData,
   SC_EVENT |-> Ending("TSC_SuplaEvent", 1, 0, SenderNameMax),
   CS_CHANNEL_SET_VALUE |-> Whole("TCS_SuplaChannelNewValue"),
   CS_CHANNEL_SET_VALUE_B |-> Whole("TCS_SuplaChannelNewValue_B"),
   CS_SET_VALUE |-> Whole("TCS_SuplaNewValue"),
   CS_OAUTH_TOKEN_REQUEST |-> NoData,
   SC_OAUTH_TOKEN_REQUEST_RESULT |-> Ending("TSC_OAuthTokenRequestResult", 1, 0, 256)]

SettingSent(b) ==
  [CS_SUPERUSER_AUTHORIZATION_REQUEST |-> Whole("TCS_SuperUserAuthorizationRequest"),
   CS_GET_SUPERUSER_AUTHORIZATION_RESULT |-> NoData,
   SC_SUPERUSER_AUTHORIZATION_RESULT |-> Whole("TSC_SuperUserAuthorizationResult"),
   CS_DEVICE_CALCFG_REQUEST |-> Ending("TCS_DeviceCalCfgRequest", 1, 0, 128),
   CS_DEVICE_CALCFG_REQUEST_B |-> Ending("TCS_DeviceCalCfgRequest_B", 1, 0, 128),
   SC_DEVICE_CALCFG_RESULT |-> Ending("TSC_DeviceCalCfgResult", 1, 0, 128),
   CS_GET_CHANNEL_BASIC_CFG |-> Whole("TCS_ChannelBasicCfgRequest"),
   SC_CHANNEL_BASIC_CFG_RESULT |-> Ending("TSC_ChannelBasicCfg", 1, 0, CaptionMax),
   CS_SET_CHANNEL_FUNCTION |-> Whole("TCS_SetChannelFunction"),
   SC_SET_CHANNEL_FUNCTION_RESULT |-> Whole("TSC_SetChannelFunctionResult"),
   CS_SET_CHANNEL_CAPTION |-> Ending("TCS_SetCaption", 1, 0, CaptionMax),
   SC_SET_CHANNEL_CAPTION_RESULT |-> Ending("TSC_SetCaptionResult", 1, 0, CaptionMax),
   CS_SET_LOCATION_CAPTION |-> Ending("TCS_SetCaption", 1, 0, CaptionMax),
   SC_SET_LOCATION_CAPTION_RESULT |-> Ending("TSC_SetCaptionResult", 1, 0, CaptionMax)]

RequestSent(b) ==
  [CS_CLIENTS_RECONNECT_REQUEST |-> NoData,
   SC_CLIENTS_RECONNECT_REQUEST_RESULT |-> Whole("TSC_ClientsReconnectRequestResult"),
   CS_SET_REGISTRATION_ENABLED |-> Whole("TCS_SetRegistrationEnabled"),
   SC_SET_REGISTRATION_ENABLED_RESULT |-> Whole("TSC_SetRegistrationEnabledResult"),
   CS_DEVICE_RECONNECT_REQUEST |-> Whole("TCS_DeviceReconnectRequest"),
   SC_DEVICE_RECONNECT_REQUEST_RESULT |-> Whole("TSC_DeviceReconnectRequestResult"),
   CS_TIMER_ARM |-> Whole("TCS_TimerArmRequest"),
   CS_EXECUTE_ACTION |-> Ending("TCS_Action", 1, 0, 500),
   CS_AUTH_AND_EXECUTE_ACTION |-> Ending("TCS_ActionWithAuth", 1, 0, 500),
   SC_ACTION_EXECUTION_RESULT |-> Whole("TSC_ActionExecutionResult")]

ForDevices(b) == CommonSent(b) @@ RegistrationSent(b) @@ DeviceSent(b)
ForClients(b) == CommonSent(b) @@ ClientSent(b) @@ ValueSent(b) @@ SettingSent(b) @@ RequestSent(b)

\* What Network's message_received has a case for.
ToDevice ==
  {"SDC_VERSIONERROR", "SD_REGISTER_DEVICE_RESULT", "SD_CHANNEL_SET_VALUE",
   "SDC_SET_ACTIVITY_TIMEOUT_RESULT", "CSD_GET_CHANNEL_STATE", "SDC_PING_SERVER_RESULT",
   "DCS_GET_USER_LOCALTIME_RESULT", "SD_DEVICE_CALCFG_REQUEST", "SD_GET_CHANNEL_CONFIG_RESULT",
   "SD_CHANNELGROUP_SET_VALUE"}

-----------------------------------------------------------------------------
(***************************************************************************)
(* Packs of items that end in a caption: every item is sent up to the end  *)
(* of its caption, and those with a caption that is too long are skipped.  *)
(***************************************************************************)
Pack(s, item, caption) == [struct |-> s, item |-> item, caption |-> caption]

PackSent ==
  [SC_LOCATIONPACK_UPDATE |-> Pack("TSC_SuplaLocationPack", "TSC_SuplaLocation", CaptionMax),
   SC_CHANNELPACK_UPDATE |-> Pack("TSC_SuplaChannelPack", "TSC_SuplaChannel", CaptionMax),
   SC_CHANNELPACK_UPDATE_B |-> Pack("TSC_SuplaChannelPack_B", "TSC_SuplaChannel_B", CaptionMax),
   SC_CHANNELPACK_UPDATE_C |-> Pack("TSC_SuplaChannelPack_C", "TSC_SuplaChannel_C", CaptionMax),
   SC_CHANNELPACK_UPDATE_D |-> Pack("TSC_SuplaChannelPack_D", "TSC_SuplaChannel_D", CaptionMax),
   SC_CHANNELGROUP_PACK_UPDATE |->
     Pack("TSC_SuplaChannelGroupPack", "TSC_SuplaChannelGroup", CaptionMax),
   SC_CHANNELGROUP_PACK_UPDATE_B |->
     Pack("TSC_SuplaChannelGroupPack_B", "TSC_SuplaChannelGroup_B", CaptionMax),
   SC_SCENE_PACK_UPDATE |-> Pack("TSC_SuplaScenePack", "TSC_SuplaScene", CaptionMax),
   SC_SCENE_STATE_PACK_UPDATE |->
     Pack("TSC_SuplaSceneStatePack", "TSC_SuplaSceneState", SenderNameMax)]

\* What comes before an item, and an item without its caption.
HeaderOf(b, k) == SizeOf[b][k.struct] - PackMax * SizeOf[b][k.item]
BareItem(b, k) == SizeOf[b][k.item] - k.caption

PackSize(header, bare, captions) == FoldSeq(LAMBDA c, sum : sum + bare + c, header, captions)

\* mutant: the pack still says how many items there were
SetPackKeepsCount(b, k, captions) ==
  LET fits(caption) == caption <= k.caption
      taken == SelectSeq(captions, fits)
  IN  [size |-> PackSize(HeaderOf(b, k), BareItem(b, k), taken), captions |-> captions]

\* srpc_set_pack: the captions that are sent, and the bytes they make.
SetPack(b, k, captions) ==
  LET fits(caption) == caption <= k.caption
      taken == SelectSeq(captions, fits)
  IN  [size |-> PackSize(HeaderOf(b, k), BareItem(b, k), taken), captions |-> taken]

-----------------------------------------------------------------------------
(***************************************************************************)
(* The receiving half: the sizes srpc_getdata accepts, and the structure   *)
(* whose size it allocates.                                                *)
(***************************************************************************)
Anything == [struct |-> "none", tail |-> 0, others |-> {}]
Exactly(s) == [Anything EXCEPT !.struct = s]
UpTo(s, tail) == [Anything EXCEPT !.struct = s, !.tail = tail]

Accepts(b, e, size) ==
  e.struct # "none" =>
    size \in ((SizeOf[b][e.struct] - e.tail)..SizeOf[b][e.struct]) \cup e.others

CommonTaken(b) ==
  [DCS_GETVERSION |-> Anything, CS_GET_NEXT |-> Anything,
   DCS_GET_REGISTRATION_ENABLED |-> Anything,
   SDC_GETVERSION_RESULT |-> Exactly("TSDC_SuplaGetVersionResult"),
   SDC_VERSIONERROR |-> Exactly("TSDC_SuplaVersionError"),
   DCS_PING_SERVER |->
     [Exactly("TDCS_SuplaPingServer") EXCEPT
        !.others = {SizeOf[b].TDCS_SuplaPingServer_COMPAT}],
   SDC_PING_SERVER_RESULT |-> Exactly("TSDC_SuplaPingServerResult"),
   DCS_SET_ACTIVITY_TIMEOUT |-> Exactly("TDCS_SuplaSetActivityTimeout"),
   SDC_SET_ACTIVITY_TIMEOUT_RESULT |-> Exactly("TSDC_SuplaSetActivityTimeoutResult"),
   SDC_GET_REGISTRATION_ENABLED_RESULT |-> Exactly("TSDC_RegistrationEnabled"),
   DCS_GET_USER_LOCALTIME |-> Anything,
   DCS_GET_USER_LOCALTIME_RESULT |-> UpTo("TSDC_UserLocalTimeResult", 51),
   CSD_GET_CHANNEL_STATE |-> Exactly("TCSD_ChannelStateRequest"),
   DSC_CHANNEL_STATE_RESULT |-> Exactly("TDSC_ChannelState")]

RegistrationTaken(b) ==
  LET upTo(s, channel) == UpTo(s, SizeOf[b][channel] * ChannelMaxCount[b])
  IN  [DS_REGISTER_DEVICE |-> upTo("TDS_SuplaRegisterDevice", "TDS_SuplaDeviceChannel"),
       DS_REGISTER_DEVICE_B |-> upTo("TDS_SuplaRegisterDevice_B", "TDS_SuplaDeviceChannel_B"),
       DS_REGISTER_DEVICE_C |-> upTo("TDS_SuplaRegisterDevice_C", "TDS_SuplaDeviceChannel_B"),
       DS_REGISTER_DEVICE_D |-> upTo("TDS_SuplaRegisterDevice_D", "TDS_SuplaDeviceChannel_B"),
       DS_REGISTER_DEVICE_E |-> upTo("TDS_SuplaRegisterDevice_E", "TDS_SuplaDeviceChannel_C"),
       SD_REGISTER_DEVICE_RESULT |-> Exactly("TSD_SuplaRegisterDeviceResult")]

DeviceTaken(b) ==
  [DS_DEVICE_CHANNEL_VALUE_CHANGED |-> Exactly("TDS_SuplaDeviceChannelValue"),
   DS_DEVICE_CHANNEL_VALUE_CHANGED_B |-> Exactly("TDS_SuplaDeviceChannelValue_B"),
   DS_DEVICE_CHANNEL_VALUE_CHANGED_C |-> Exactly("TDS_SuplaDeviceChannelValue_C"),
   DS_DEVICE_CHANNEL_EXTENDEDVALUE_CHANGED |->
     UpTo("TDS_SuplaDeviceChannelExtendedValue", ExtendedValueSize[b]),
   SD_CHANNEL_SET_VALUE |-> Exactly("TSD_SuplaChannelNewValue"),
   SD_CHANNELGROUP_SET_VALUE |-> Exactly("TSD_SuplaChannelGroupNewValue"),
   DS_CHANNEL_SET_VALUE_RESULT |-> Exactly("TDS_SuplaChannelNewValueResult"),
   DS_GET_FIRMWARE_UPDATE_URL |-> Exactly("TDS_FirmwareUpdateParams"),
   SD_GET_FIRMWARE_UPDATE_URL_RESULT |->
     [Exactly("TSD_FirmwareUpdate_UrlResult") EXCEPT !.others = {1}],
   SD_DEVICE_CALCFG_REQUEST |-> UpTo("TSD_DeviceCalCfgRequest", 128),
   DS_DEVICE_CALCFG_RESULT |-> UpTo("TDS_DeviceCalCfgResult", 128),
   DS_GET_CHANNEL_FUNCTIONS |-> Anything,
   SD_GET_CHANNEL_FUNCTIONS_RESULT |-> UpTo("TSD_ChannelFunctions", 4 * ChannelMaxCount[b]),
   DS_GET_CHANNEL_CONFIG |-> Exactly("TDS_GetChannelConfigRequest"),
   SD_GET_CHANNEL_CONFIG_RESULT |-> UpTo("TSD_ChannelConfig", 128),
   DS_ACTIONTRIGGER |-> Exactly("TDS_ActionTrigger")]

ClientTaken(b) ==
  [CS_REGISTER_CLIENT |-> Exactly("TCS_SuplaRegisterClient"),
   CS_REGISTER_CLIENT_B |-> Exactly("TCS_SuplaRegisterClient_B"),
   CS_REGISTER_CLIENT_C |-> Exactly("TCS_SuplaRegisterClient_C"),
   CS_REGISTER_CLIENT_D |-> Exactly("TCS_SuplaRegisterClient_D"),
   SC_REGISTER_CLIENT_RESULT |-> Exactly("TSC_SuplaRegisterClientResult"),
   SC_REGISTER_CLIENT_RESULT_B |-> Exactly("TSC_SuplaRegisterClientResult_B"),
   SC_REGISTER_CLIENT_RESULT_C |-> Exactly("TSC_SuplaRegisterClientResult_C"),
   SC_LOCATION_UPDATE |-> UpTo("TSC_SuplaLocation", CaptionMax),
   SC_CHANNEL_UPDATE |-> UpTo("TSC_SuplaChannel", CaptionMax),
   SC_CHANNEL_UPDATE_B |-> UpTo("TSC_SuplaChannel_B", CaptionMax),
   SC_CHANNEL_UPDATE_C |-> UpTo("TSC_SuplaChannel_C", CaptionMax),
   SC_CHANNEL_UPDATE_D |-> UpTo("TSC_SuplaChannel_D", CaptionMax)]

ValueTaken(b) ==
  [SC_CHANNEL_VALUE_UPDATE |-> Exactly("TSC_SuplaChannelValue"),
   SC_CHANNEL_VALUE_UPDATE_B |-> Exactly("TSC_SuplaChannelValue_B"),
   SC_CHANNELGROUP_RELATION_PACK_UPDATE |-> UpTo("TSC_SuplaChannelGroupRelationPack", 9 * 100),
   SC_CHANNELVALUE_PACK_UPDATE |-> UpTo("TSC_SuplaChannelValuePack", 22 * PackMax),
   SC_CHANNELVALUE_PACK_UPDATE_B |-> UpTo("TSC_SuplaChannelValuePack_B", 23 * PackMax),
   SC_CHANNELEXTENDEDVALUE_PACK_UPDATE |->
     UpTo("TSC_SuplaChannelExtendedValuePack", MaxDataSize[b] - 50),
   CS_CHANNEL_SET_VALUE |-> Exactly("TCS_SuplaChannelNewValue"),
   CS_SET_VALUE |-> Exactly("TCS_SuplaNewValue"),
   CS_CHANNEL_SET_VALUE_B |-> Exactly("TCS_SuplaChannelNewValue_B"),
   SC_EVENT |-> UpTo("TSC_SuplaEvent", SenderNameMax),
   CS_OAUTH_TOKEN_REQUEST |-> Anything,
   SC_OAUTH_TOKEN_REQUEST_RESULT |-> UpTo("TSC_OAuthTokenRequestResult", 256)]

SettingTaken(b) ==
  [CS_SUPERUSER_AUTHORIZATION_REQUEST |-> Exactly("TCS_SuperUserAuthorizationRequest"),
   CS_GET_SUPERUSER_AUTHORIZATION_RESULT |-> Anything,
   SC_SUPERUSER_AUTHORIZATION_RESULT |-> Exactly("TSC_SuperUserAuthorizationResult"),
   CS_DEVICE_CALCFG_REQUEST |-> UpTo("TCS_DeviceCalCfgRequest", 128),
   CS_DEVICE_CALCFG_REQUEST_B |-> UpTo("TCS_DeviceCalCfgRequest_B", 128),
   SC_DEVICE_CALCFG_RESULT |-> UpTo("TSC_DeviceCalCfgResult", 128),
   CS_GET_CHANNEL_BASIC_CFG |-> Exactly("TCS_ChannelBasicCfgRequest"),
   SC_CHANNEL_BASIC_CFG_RESULT |-> UpTo("TSC_ChannelBasicCfg", CaptionMax),
   CS_SET_CHANNEL_FUNCTION |-> Exactly("TCS_SetChannelFunction"),
   SC_SET_CHANNEL_FUNCTION_RESULT |-> Exactly("TSC_SetChannelFunctionResult"),
   CS_SET_CHANNEL_CAPTION |-> UpTo("TCS_SetCaption", CaptionMax),
   CS_SET_LOCATION_CAPTION |-> UpTo("TCS_SetCaption", CaptionMax),
   SC_SET_CHANNEL_CAPTION_RESULT |-> UpTo("TSC_SetCaptionResult", CaptionMax),
   SC_SET_LOCATION_CAPTION_RESULT |-> UpTo("TSC_SetCaptionResult", CaptionMax)]

RequestTaken(b) ==
  [CS_CLIENTS_RECONNECT_REQUEST |-> Anything,
   SC_CLIENTS_RECONNECT_REQUEST_RESULT |-> Exactly("TSC_ClientsReconnectRequestResult"),
   CS_SET_REGISTRATION_ENABLED |-> Exactly("TCS_SetRegistrationEnabled"),
   SC_SET_REGISTRATION_ENABLED_RESULT |-> Exactly("TSC_SetRegistrationEnabledResult"),
   CS_DEVICE_RECONNECT_REQUEST |-> Exactly("TCS_DeviceReconnectRequest"),
   SC_DEVICE_RECONNECT_REQUEST_RESULT |-> Exactly("TSC_DeviceReconnectRequestResult"),
   CS_TIMER_ARM |-> Exactly("TCS_TimerArmRequest"),
   CS_EXECUTE_ACTION |-> UpTo("TCS_Action", 500),
   CS_AUTH_AND_EXECUTE_ACTION |-> UpTo("TCS_ActionWithAuth", 500),
   SC_ACTION_EXECUTION_RESULT |-> Exactly("TSC_ActionExecutionResult")]

TakenByDevices(b) == CommonTaken(b) @@ RegistrationTaken(b) @@ DeviceTaken(b)
TakenByClients(b) ==
  CommonTaken(b) @@ ClientTaken(b) @@ ValueTaken(b) @@ SettingTaken(b) @@ RequestTaken(b)

\* The structures srpc_getdata gives to srpc_getpack.
PackTaken ==
  [SC_LOCATIONPACK_UPDATE |-> Pack("TSC_SuplaLocationPack", "TSC_SuplaLocation", CaptionMax),
   SC_CHANNELPACK_UPDATE |-> Pack("TSC_SuplaChannelPack", "TSC_SuplaChannel", CaptionMax),
   SC_CHANNELPACK_UPDATE_B |-> Pack("TSC_SuplaChannelPack_B", "TSC_SuplaChannel_B", CaptionMax),
   SC_CHANNELPACK_UPDATE_C |-> Pack("TSC_SuplaChannelPack_C", "TSC_SuplaChannel_C", CaptionMax),
   SC_CHANNELPACK_UPDATE_D |-> Pack("TSC_SuplaChannelPack_D", "TSC_SuplaChannel_D", CaptionMax),
   SC_CHANNELGROUP_PACK_UPDATE |->
     Pack("TSC_SuplaChannelGroupPack", "TSC_SuplaChannelGroup", CaptionMax),
   SC_CHANNELGROUP_PACK_UPDATE_B |->
     Pack("TSC_SuplaChannelGroupPack_B", "TSC_SuplaChannelGroup_B", CaptionMax)]

\* The two getters of scenes stand with their senders.
ScenePackTaken ==
  [SC_SCENE_PACK_UPDATE |-> Pack("TSC_SuplaScenePack", "TSC_SuplaScene", CaptionMax),
   SC_SCENE_STATE_PACK_UPDATE |->
     Pack("TSC_SuplaSceneStatePack", "TSC_SuplaSceneState", SenderNameMax)]

\* srpc_getpack takes a pack when it finds in it as many items as the pack says.
GetPack(b, k, size, captions) ==
  /\ size \in HeaderOf(b, k)..SizeOf[b][k.struct]
  /\ Len(captions) <= PackMax
  /\ \A i \in DOMAIN captions :
       /\ captions[i] <= k.caption
       /\ PackSize(HeaderOf(b, k), BareItem(b, k), SubSeq(captions, 1, i)) <= size

-----------------------------------------------------------------------------
(***************************************************************************)
(* Which version of the protocol a call needs.  255: no version will do.   *)
(***************************************************************************)
CallsSince ==
  [v \in 1..Newest |->
     CASE v = 1 -> {"DCS_GETVERSION", "SDC_GETVERSION_RESULT", "SDC_VERSIONERROR",
            "DCS_PING_SERVER", "SDC_PING_SERVER_RESULT", "DS_REGISTER_DEVICE",
            "SD_REGISTER_DEVICE_RESULT", "CS_REGISTER_CLIENT", "SC_REGISTER_CLIENT_RESULT",
            "DS_DEVICE_CHANNEL_VALUE_CHANGED", "SD_CHANNEL_SET_VALUE",
            "DS_CHANNEL_SET_VALUE_RESULT", "SC_LOCATION_UPDATE", "SC_LOCATIONPACK_UPDATE",
            "SC_CHANNEL_UPDATE", "SC_CHANNELPACK_UPDATE", "SC_CHANNEL_VALUE_UPDATE",
            "CS_GET_NEXT", "SC_EVENT", "CS_CHANNEL_SET_VALUE"}
       [] v = 2 -> {"DS_REGISTER_DEVICE_B", "DCS_SET_ACTIVITY_TIMEOUT",
            "SDC_SET_ACTIVITY_TIMEOUT_RESULT"}
       [] v = 3 -> {"CS_CHANNEL_SET_VALUE_B"}
       [] v = 5 -> {"DS_GET_FIRMWARE_UPDATE_URL", "SD_GET_FIRMWARE_UPDATE_URL_RESULT"}
       [] v = 6 -> {"DS_REGISTER_DEVICE_C", "CS_REGISTER_CLIENT_B"}
       [] v = 7 -> {"CS_REGISTER_CLIENT_C", "DS_REGISTER_DEVICE_D",
            "DCS_GET_REGISTRATION_ENABLED", "SDC_GET_REGISTRATION_ENABLED_RESULT"}
       [] v = 8 -> {"SC_CHANNELPACK_UPDATE_B", "SC_CHANNEL_UPDATE_B"}
       [] v = 9 -> {"SC_REGISTER_CLIENT_RESULT_B", "SC_CHANNELGROUP_PACK_UPDATE",
            "SC_CHANNELGROUP_RELATION_PACK_UPDATE", "SC_CHANNELVALUE_PACK_UPDATE",
            "CS_SET_VALUE"}
       [] v = 10 -> {"DS_DEVICE_CHANNEL_EXTENDEDVALUE_CHANGED",
            "SC_CHANNELEXTENDEDVALUE_PACK_UPDATE", "CS_OAUTH_TOKEN_REQUEST",
            "SC_OAUTH_TOKEN_REQUEST_RESULT", "DS_REGISTER_DEVICE_E",
            "CS_SUPERUSER_AUTHORIZATION_REQUEST", "SC_SUPERUSER_AUTHORIZATION_RESULT",
            "CS_DEVICE_CALCFG_REQUEST", "SC_DEVICE_CALCFG_RESULT", "SD_DEVICE_CALCFG_REQUEST",
            "DS_DEVICE_CALCFG_RESULT", "SC_CHANNELGROUP_PACK_UPDATE_B", "SC_CHANNEL_UPDATE_C",
            "SC_CHANNELPACK_UPDATE_C"}
       [] v = 11 -> {"DCS_GET_USER_LOCALTIME", "DCS_GET_USER_LOCALTIME_RESULT",
            "CS_DEVICE_CALCFG_REQUEST_B"}
       [] v = 12 -> {"CS_REGISTER_CLIENT_D", "CSD_GET_CHANNEL_STATE",
            "DSC_CHANNEL_STATE_RESULT", "CS_GET_CHANNEL_BASIC_CFG",
            "SC_CHANNEL_BASIC_CFG_RESULT", "CS_SET_CHANNEL_FUNCTION",
            "SC_SET_CHANNEL_FUNCTION_RESULT", "CS_SET_CHANNEL_CAPTION",
            "SC_SET_CHANNEL_CAPTION_RESULT", "CS_CLIENTS_RECONNECT_REQUEST",
            "SC_CLIENTS_RECONNECT_REQUEST_RESULT", "CS_SET_REGISTRATION_ENABLED",
            "SC_SET_REGISTRATION_ENABLED_RESULT", "CS_DEVICE_RECONNECT_REQUEST",
            "SC_DEVICE_RECONNECT_REQUEST_RESULT", "DS_DEVICE_CHANNEL_VALUE_CHANGED_B",
            "DS_DEVICE_CHANNEL_VALUE_CHANGED_C", "DS_GET_CHANNEL_FUNCTIONS",
            "SD_GET_CHANNEL_FUNCTIONS_RESULT", "CS_GET_SUPERUSER_AUTHORIZATION_RESULT"}
       [] v = 13 -> {"SD_CHANNELGROUP_SET_VALUE"}
       [] v = 14 -> {"CS_SET_LOCATION_CAPTION", "SC_SET_LOCATION_CAPTION_RESULT"}
       [] v = 15 -> {"SC_CHANNEL_UPDATE_D", "SC_CHANNELPACK_UPDATE_D",
            "SC_CHANNEL_VALUE_UPDATE_B", "SC_CHANNELVALUE_PACK_UPDATE_B"}
       [] v = 16 -> {"DS_GET_CHANNEL_CONFIG", "SD_GET_CHANNEL_CONFIG_RESULT", "DS_ACTIONTRIGGER"}
       [] v = 17 -> {"SC_REGISTER_CLIENT_RESULT_C", "CS_TIMER_ARM"}
       [] v = 18 -> {"SC_SCENE_PACK_UPDATE", "SC_SCENE_STATE_PACK_UPDATE", "CS_EXECUTE_ACTION",
            "CS_AUTH_AND_EXECUTE_ACTION", "SC_ACTION_EXECUTION_RESULT"}
       [] OTHER -> {}]


CallAllowed(call, version) == \E v \in 1..version : call \in CallsSince[v]

-----------------------------------------------------------------------------
(***************************************************************************)
(* One call at a time between two ends, and what becomes of it.            *)
(***************************************************************************)
CONSTANTS
  CaptionSizes,  \* sizes of captions in a pack
  PackCounts     \* numbers of items in a pack

ASSUME CallsAssumption == CaptionSizes \subseteq Nat /\ PackCounts \subseteq Nat

VARIABLES
  ends,     \* the builds of the sender and of the receiver
  version,  \* the version of the protocol the sender has set
  message,  \* the packet: its call, the count asked for, its size and, of a pack, its captions
  outcome   \* of the call

callVars == <<ends, version, message, outcome>>

Sent == [b \in Builds |-> ForDevices(b) @@ ForClients(b)]
Taken == [b \in Builds |-> TakenByDevices(b) @@ TakenByClients(b)]
PacksTaken == PackTaken @@ ScenePackTaken

Nothing == [call |-> "none", count |-> 0, size |-> 0, captions |-> << >>]

\* A device and the server, the server and a device, the server and a client.
Ends == {<<"mega", "server">>, <<"device", "server">>, <<"server", "mega">>,
         <<"server", "device">>, <<"server", "server">>}

\* The calls one end has for the other.
CallsOf(e) ==
  CASE e[1] # "server" -> DOMAIN ForDevices(e[1]) \ ToDevice
    [] e[1] = "server" /\ e[2] # "server" -> ToDevice
    [] OTHER -> DOMAIN ForClients("server")

CallsInit ==
  ends \in Ends /\ version \in 1..Newest /\ message = Nothing /\ outcome = "none"

\* srpc_async_call, after the sending function has made the packet.
Send(call, count, size, captions) ==
  /\ message' = [call |-> call, count |-> count, size |-> size, captions |-> captions]
  /\ outcome' = IF CallAllowed(call, version) /\ size <= MaxDataSize[ends[1]]
                  THEN "sent" ELSE "refused"

\* The function returns 0 without a call.
Refuse(call, count) ==
  /\ message' = [Nothing EXCEPT !.call = call, !.count = count]
  /\ outcome' = "refused"

\* A function that sends a structure.  It refuses a count that is out of range.
SendCall(call, n) ==
  /\ outcome = "none"
  /\ LET e == Sent[ends[1]][call]
     IN  IF n \in e.least..e.most
           THEN Send(call, n, SentSize(ends[1], e, n), << >>)
           ELSE Refuse(call, n)
  /\ UNCHANGED <<ends, version>>

\* A function that sends a pack.
SendPack(call, captions) ==
  /\ outcome = "none" /\ ends = <<"server", "server">>
  /\ IF Len(captions) \in 1..PackMax
       THEN LET pack == SetPack(ends[1], PackSent[call], captions)
            IN  Send(call, Len(captions), pack.size, pack.captions)
       ELSE Refuse(call, Len(captions))
  /\ UNCHANGED <<ends, version>>

\* The packet comes to the receiver's input buffer, if it fits, and from there to srpc_getdata.
Receive ==
  /\ outcome = "sent"
  /\ LET b == ends[2]
         ok == /\ PacketHeader + message.size + TagSize < BufferMaxSize[b]
               /\ message.size <= MaxDataSize[b]
               /\ IF message.call \in DOMAIN PacksTaken
                    THEN GetPack(b, PacksTaken[message.call], message.size, message.captions)
                    ELSE message.call \in DOMAIN Taken[b]
                         /\ Accepts(b, Taken[b][message.call], message.size)
     IN  outcome' = IF ok THEN "received" ELSE "dataError"
  /\ UNCHANGED <<ends, version, message>>

\* Packs whose captions are all alike but for one.
Captions ==
  UNION {{[i \in 1..n |-> IF i = k THEN odd ELSE usual] :
            odd \in CaptionSizes, usual \in CaptionSizes, k \in {1, n}} : n \in PackCounts}

Boundaries(e) == {0, 1, 2, e.most - 1, e.most, e.most + 1} \cap Nat

CallsNext ==
  \/ \E call \in CallsOf(ends) : \E n \in Boundaries(Sent[ends[1]][call]) : SendCall(call, n)
  \/ \E call \in DOMAIN PackSent, captions \in Captions : SendPack(call, captions)
  \/ Receive

CallsSpec == CallsInit /\ [][CallsNext]_callVars

CallsTypeOK ==
  /\ ends \in Ends /\ version \in 1 .. Newest /\ message.count \in Nat
  /\ outcome \in {"none", "sent", "refused", "received", "dataError"}

-----------------------------------------------------------------------------
\* What a sending function of srpc.c sends, srpc_getdata of the other end takes: the sizes one
\* half computes and the other half accepts, the limits of the two builds, and the count and
\* the captions of a pack agree.  And at the newest version of the protocol every call with a
\* legal count is sent: none lacks its row in srpc_call_min_version_required or is larger than
\* a packet.  Registrations, which may be too large, are apart (RegistrationFits).
SentIsReceived == outcome # "dataError"
LegalCounts(call) ==
  IF call \in DOMAIN PackSent THEN 1..PackMax
  ELSE LET e == Sent[ends[1]][call] IN e.least..e.most
NewestSendsAll ==
  version = Newest /\ outcome = "refused" /\ message.call # "DS_REGISTER_DEVICE_E" =>
    message.count \notin LegalCounts(message.call)
BothHalvesAgree == SentIsReceived /\ NewestSendsAll

\* A device can register with as many channels as it may have (proto.h says that
\* SUPLA_MAX_DATA_SIZE is the "Registration header + 128 channels").
RegistrationFits ==
  version = Newest /\ outcome = "refused" /\ message.call = "DS_REGISTER_DEVICE_E" =>
    message.count > ChannelMaxCount[ends[1]]
=============================================================================
