------------------------- MODULE MCDirectoryWatcher -------------------------
(* Instances of DirectoryWatcher for TLC.                                  *)
EXTENDS DirectoryWatcher

=============================================================================
