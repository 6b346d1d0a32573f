---------------------------- MODULE BuildPromise ----------------------------
(***************************************************************************)
(* What a caller of Builder::build (src/src/build/mod.rs) is promised: a   *)
(* build runs for a while and then, in one step, either replaces its       *)
(* output by the image of its sources, or fails and leaves it alone.  It   *)
(* says nothing of workers, temporary files or the cache.                  *)
(***************************************************************************)
CONSTANTS
  Builds,
  Target,      \* Target[b]: the output of build b
  Archive,     \* Archive[b]: the output keeps the members that b does not replace
  Image,       \* Image[b]: the members b produces, Absent where it has none
  Succeeding,  \* the builds whose sources all compile
  MayFail,     \* the builds that have a reason to fail
  Absent

VARIABLES status, out

Init ==
  /\ status = [b \in Builds |-> "idle"]
  /\ \A p \in DOMAIN out : \A m \in DOMAIN out[p] : out[p][m] = Absent

Move(b, from, to) == status[b] = from /\ status' = [status EXCEPT ![b] = to]

Start(b) == Move(b, "idle", "running") /\ UNCHANGED out

Succeed(b) ==
  /\ b \in Succeeding
  /\ Move(b, "running", "done")
  /\ out' = [out EXCEPT ![Target[b]] =
               [m \in DOMAIN Image[b] |->
                  IF Archive[b] /\ Image[b][m] = Absent THEN @[m] ELSE Image[b][m]]]

Fail(b) ==
  /\ b \in MayFail
  /\ Move(b, "idle", "failed") \/ Move(b, "running", "failed")
  /\ UNCHANGED out

Next == \E b \in Builds : Start(b) \/ Succeed(b) \/ Fail(b)

Spec == Init /\ [][Next]_<<status, out>>
=============================================================================
