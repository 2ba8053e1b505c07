-------------------------------- MODULE Absent --------------------------------
(* The two values the program has no document, number or answer for.       *)
CONSTANTS None, \* undefined or null: no document, no value
          Error \* what a library refuses, and what the code throws
=============================================================================
