----------------------------- MODULE CallSteps -----------------------------
(***************************************************************************)
(* How the body of a native call is written down: as the sequence of its   *)
(* steps that matter to what it owns.  A resource is whatever has to be    *)
(* given back: a heap block, a library's object, a locked page, a secret   *)
(* that has to be wiped.                                                   *)
(*                                                                         *)
(* A step takes and drops resources.  One that can fail ends the call with *)
(* an error: `undo` is what the code's error path then releases without    *)
(* looking, `closes` what it releases if it is there (a null check).       *)
(***************************************************************************)
EXTENDS Integers, SequencesExt

Step == [takes |-> {}, drops |-> {}, frees |-> {}, fails |-> "never",
         undo |-> {}, closes |-> {}]

\* An allocation that may fail, and one whose failure the code does not handle.
Get(r, undo) == [Step EXCEPT !.takes = {r}, !.fails = "maybe", !.undo = undo]
Take(r) == [Step EXCEPT !.takes = {r}]

\* A condition that may end the call, and one that always does.
Check(undo) == [Step EXCEPT !.fails = "maybe", !.undo = undo]
Refuse(undo) == [Step EXCEPT !.fails = "always", !.undo = undo]

\* A release: without looking, and of what is there.
Free(rs) == [Step EXCEPT !.drops = rs]
FreeIfThere(rs) == [Step EXCEPT !.frees = rs]

\* One thing becomes another: its owner changes, or the variable that holds it.
Becomes(from, to) == [Step EXCEPT !.takes = {to}, !.drops = {from}]

\* A body run by a caller that cleans up `undo` when it fails.
Within(body, undo) == [i \in DOMAIN body |-> [body[i] EXCEPT !.undo = @ \cup undo]]
\* A body whose failures all go through a close() that checks each member.
Closing(body, members) ==
    [i \in DOMAIN body |-> [body[i] EXCEPT !.closes = @ \cup members]]

\* One of several ways a body can go on.
OneOf(before, ways, after) == {before \o w \o after : w \in ways}

\* A body that is known to succeed.
Succeeding(body) == [i \in DOMAIN body |-> [body[i] EXCEPT !.fails = "never"]]

\* What a call asks of the caller: resources it hands in, resources it must
\* not have yet (the bound: one of each), and the ways through its body.
Call(needs, absent, paths) == [needs |-> needs, absent |-> absent, paths |-> paths]

\* A thing the caller may own, and the sets of its parts that are complete.
Object(parts, complete) == [parts |-> parts, complete |-> complete]
AllOrNothing(parts) == Object(parts, {{}, parts})
=============================================================================
