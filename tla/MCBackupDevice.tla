--------------------------- MODULE MCBackupDevice ---------------------------
(* Instances of BackupDevice for TLC: an empty device, one smaller than the
   buffer, one that is a multiple of it and one that is not. *)
EXTENDS BackupDevice
MCDeviceSizes == {0, 1, 4, 5}
=============================================================================
