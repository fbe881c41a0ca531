-------------------------- MODULE MCRollerShutter --------------------------
EXTENDS RollerShutter

RelaysOnly == {"direct"}
AllVariants == {"direct", "bistable", "tripple"}
Times == {0, 2}
=============================================================================
