----------------------------- MODULE TkpRegister -----------------------------
(****************************************************************************)
(* What the TKP import promises, whatever the tables look like: the catalog *)
(* holds at most one revision of every file name, and an upload that is     *)
(* accepted puts its own revision of every file it names there, all at once *)
(* or not at all.  Which of two uploads is the newer one is decided by the  *)
(* order of their commits and by nothing else.                              *)
(****************************************************************************)
CONSTANTS Names, Contents, Uploaders, Absent

VARIABLES
  register,   \* the revision stored of each name
  pending     \* the revisions each upload brings, by name

vars == <<register, pending>>

Nothing == [n \in Names |-> {}]

Init ==
  /\ register \in [Names -> Contents \cup {Absent}]
  /\ pending = [u \in Uploaders |-> Nothing]

Arrive(u) ==
  /\ pending[u] = Nothing
  /\ pending'[u] \in [Names -> SUBSET Contents]
  /\ pending' = [pending EXCEPT ![u] = pending'[u]]
  /\ UNCHANGED register

Publish(u) ==
  /\ \A n \in Names :
       IF pending[u][n] = {} THEN register'[n] = register[n]
                             ELSE register'[n] \in pending[u][n]
  /\ DOMAIN register' = Names
  /\ pending' = [pending EXCEPT ![u] = Nothing]

Drop(u) ==
  /\ pending' = [pending EXCEPT ![u] = Nothing]
  /\ UNCHANGED register

Next == \E u \in Uploaders : Arrive(u) \/ Publish(u) \/ Drop(u)

Spec == Init /\ [][Next]_vars
==============================================================================
