------------------------------- MODULE ModalHud -------------------------------
(***************************************************************************)
(* What the file browser is promised by the plugins, whatever the protocol *)
(* of the account.                                                         *)
(*                                                                         *)
(* An operation on files covers the screen with a modal HUD until the      *)
(* plugin calls the delegate's Finished method, or the user cancels.       *)
(* These calls name no request, so any of them hides the HUD on the view,  *)
(* whosever it is.  The promise is that every such call comes from a       *)
(* request that was made, and that the request whose HUD is on the view    *)
(* still owes one: only a request without a HUD may lapse in silence.      *)
(***************************************************************************)
EXTENDS DispatchQueue

VARIABLES
  asked,   \* number of requests so far; a request is called by its number
  hud,     \* the request whose HUD covers the screen, or 0
  owed,    \* the requests that may still call a Finished method
  over     \* an exception has ended the process

vars == <<asked, hud, owed, over>>

Init == asked = 0 /\ hud = 0 /\ owed = {} /\ over = NO

\* The user asks for an operation, be it one without a HUD.  A plugin may
\* forget older requests then.
Ask ==
  /\ over = NO /\ hud = 0
  /\ asked' = asked + 1 /\ hud' \in {0, asked'}
  /\ owed' \subseteq owed \union {asked'} /\ asked' \in owed'
  /\ UNCHANGED over

\* A Finished method is called for r, not necessarily for the last time; and
\* whoever counted on it is done.
Report(r) ==
  /\ r \in owed
  /\ hud' = 0
  /\ owed' \subseteq owed
  /\ UNCHANGED <<asked, over>>

\* The HUD goes away at once.  The plugin withdraws what it can, or nothing.
Cancel ==
  /\ hud # 0
  /\ hud' = 0
  /\ owed' \subseteq owed
  /\ UNCHANGED <<asked, over>>

\* Requests end in silence, but not the one whose HUD is on the view.
Lapse ==
  /\ owed' \subseteq owed /\ hud \in owed' \union {0}
  /\ UNCHANGED <<asked, hud, over>>

End ==
  /\ over' = YES /\ hud' = 0 /\ owed' = {}
  /\ UNCHANGED asked

Next == Ask \/ (\E r \in owed : Report(r)) \/ Cancel \/ Lapse \/ End

Spec == Init /\ [][Next]_vars
=============================================================================
