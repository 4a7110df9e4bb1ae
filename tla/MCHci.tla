-------------------------------- MODULE MCHci --------------------------------
(***************************************************************************)
(* Instance of Hci for TLC: what the host writes, byte by byte.            *)
(***************************************************************************)
EXTENDS Hci

AdvOn      == <<HCI_COMMAND, 10, 32, 1, 1>>
AdvOff     == <<HCI_COMMAND, 10, 32, 1, 0>>
ScanOn     == <<HCI_COMMAND, 12, 32, 1, 1>>
ScanOff    == <<HCI_COMMAND, 12, 32, 1, 0>>
Create     == <<HCI_COMMAND, 13, 32, 2, 4, 1>>
ReadVer    == <<HCI_COMMAND, 1, 12, 0>>
AclData    == <<HCI_ACL_DATA, 0, 0, 2, 0, 4, 1>>   \* ends like a new command
IdleByte   == <<0>>
LongAcl    == <<HCI_ACL_DATA, 0, 0, 3, 0, 1, 1, 1>>   \* for a buffer of 6 bytes

HostPackets == {AdvOn, AdvOff, ScanOn, ScanOff, Create, ReadVer, AclData, IdleByte,
                <<HCI_EVENT, 14, 0>>, LongAcl}
=============================================================================
