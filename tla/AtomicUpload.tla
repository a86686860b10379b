---------------------------- MODULE AtomicUpload ----------------------------
(***************************************************************************)
(* What a board that is updated over the network promises of its uploads:  *)
(* each is one atomic change of what it boots, or none; it is told of as   *)
(* it was; and no other step, a power cut neither, changes what is booted. *)
(* What was left of an upload that was withdrawn gets in the way of the    *)
(* next, if the board was not restarted in between; and a board may be     *)
(* short of what an upload needs.  Such an upload is not fresh, and told   *)
(* "OK" it may have installed something else, or nothing.                  *)
(***************************************************************************)
CONSTANTS
  Images,   \* what may be uploaded
  Factory,  \* what the board was delivered with
  None      \* stands for no image

VARIABLES
  boots,    \* the image the board boots
  runs,     \* the image it runs
  request,  \* the image being uploaded
  leftover, \* whether something is left of an upload that was withdrawn
  fresh,    \* whether nothing was in the way when this upload began
  outcome,  \* of this request: "open", "OK" or "FAIL"
  told      \* the last answer

uploadVars == <<boots, runs, request, leftover, fresh, outcome, told>>

Nothing == [text |-> "none", to |-> None, fresh |-> TRUE]

NoRequest == request = None /\ outcome = "open"

AtomicInit ==
  /\ boots = Factory /\ runs = Factory
  /\ NoRequest /\ leftover = FALSE /\ fresh = TRUE /\ told = Nothing

Begin(f) ==
  /\ NoRequest
  /\ request' = f /\ fresh' \in BOOLEAN /\ leftover' = FALSE
  /\ leftover => ~fresh'
  /\ told' = Nothing
  /\ UNCHANGED <<boots, runs, outcome>>

Install ==
  /\ request # None /\ outcome = "open"
  /\ outcome' = "OK"
  /\ boots' \in IF fresh THEN {request} ELSE Images \cup {boots}
  /\ UNCHANGED <<runs, request, leftover, fresh, told>>

Refuse ==
  /\ request # None /\ outcome = "open"
  /\ outcome' = "FAIL"
  /\ UNCHANGED <<boots, runs, request, leftover, fresh, told>>

Withdraw ==
  /\ request # None /\ outcome = "open"
  /\ request' = None /\ fresh' = TRUE /\ leftover' \in BOOLEAN
  /\ UNCHANGED <<boots, runs, outcome, told>>

(* A request without an image installs nothing, whatever it is told.       *)
Empty ==
  /\ NoRequest
  /\ outcome' \in {"OK", "FAIL"} /\ leftover' = FALSE /\ told' = Nothing
  /\ UNCHANGED <<boots, runs, request, fresh>>

Restart ==
  /\ runs' = boots
  /\ request' = None /\ outcome' = "open" /\ leftover' = FALSE /\ fresh' = TRUE
  /\ UNCHANGED boots

(* Every answer is followed by a restart.                                  *)
Tell ==
  /\ outcome # "open"
  /\ told' = [text |-> outcome, to |-> request, fresh |-> fresh]
  /\ Restart

PowerCut == Restart /\ told' = Nothing

AtomicNext ==
  \/ \E f \in Images : Begin(f)
  \/ Install \/ Refuse \/ Withdraw \/ Empty \/ Tell \/ PowerCut

AtomicSpec == AtomicInit /\ [][AtomicNext]_uploadVars
=============================================================================
