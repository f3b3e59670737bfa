---------------------------- MODULE MethodTables ----------------------------
(***************************************************************************)
(* Tables with a row for each method, one for each stretch of the source,   *)
(* taken together.  No method is in two of them.                           *)
(***************************************************************************)

Joined(tables) ==
    [m \in UNION {DOMAIN f : f \in tables} |-> (CHOOSE f \in tables : m \in DOMAIN f)[m]]

=============================================================================
