----------------------------- MODULE ALutWindows -----------------------------
(***************************************************************************)
(* What the A-LUT path promises the peer, without segments, registers or  *)
(* posted writes.  The peer sees a window: translated granule g reaches   *)
(* address win[g], or nothing (Blocked).                                   *)
(*   - A map returns a translated start t such that [t, t+size) reaches   *)
(*     [addr, addr+size); it may open more granules, but only on the same *)
(*     translation (t + k reaches addr + k), and it never changes what a  *)
(*     granule held by another caller reaches; it may also close windows *)
(*     nobody holds, as Revoke does.                                      *)
(*   - An unmap closes nothing by itself; windows no caller holds close   *)
(*     later, one or more at a time (Revoke), and nothing else closes     *)
(*     or re-points them.                                                 *)
(*   - Attach and detach of the port change no window.                    *)
(* ALut implements this specification under the mapping win <- the       *)
(* translation its A-LUT entries give (ALut!PeerTranslate).               *)
(***************************************************************************)
EXTENDS Naturals

CONSTANTS
  Clients,
  Reqs,        \* the [addr, size] ranges callers ask to map
  Gran,        \* the translated granules the peer can address
  Blocked      \* what an unmapped granule reaches

VARIABLES attached, pc, held, win

avars == <<attached, pc, held, win>>

NoHeld == [addr |-> 0, size |-> 0, t |-> 0]

(* The granules caller c holds through its mapping.                      *)
HeldBy(c) == IF pc[c] = "mapped" THEN held[c].t .. held[c].t + held[c].size - 1
                                 ELSE {}

HeldByOthers(c) == UNION {HeldBy(o) : o \in Clients \ {c}}

Init ==
  /\ attached = FALSE
  /\ pc = [c \in Clients |-> "idle"]
  /\ held = [c \in Clients |-> NoHeld]
  /\ win = [g \in Gran |-> Blocked]

Attach == ~attached /\ attached' = TRUE /\ UNCHANGED <<pc, held, win>>

Detach ==
  /\ attached /\ \A c \in Clients : pc[c] = "idle"
  /\ attached' = FALSE
  /\ UNCHANGED <<pc, held, win>>

(* Caller c maps r and gets back t.                                      *)
Map(c, r) ==
  /\ attached /\ pc[c] = "idle"
  /\ \E t \in Gran :
       /\ t .. t + r.size - 1 \subseteq Gran
       /\ held' = [held EXCEPT ![c] = [addr |-> r.addr, size |-> r.size, t |-> t]]
       /\ \A g \in Gran :
            /\ g \in t .. t + r.size - 1 => win'[g] = r.addr + (g - t)
            /\ g \in HeldByOthers(c) => win'[g] = win[g]
            /\ win'[g] \in {win[g], r.addr + (g - t), Blocked}
  /\ pc' = [pc EXCEPT ![c] = "mapped"]
  /\ UNCHANGED attached

Unmap(c) ==
  /\ attached /\ pc[c] = "mapped"
  /\ pc' = [pc EXCEPT ![c] = "idle"]
  /\ held' = [held EXCEPT ![c] = NoHeld]
  /\ UNCHANGED <<attached, win>>

(* Some windows that no caller holds are closed.                         *)
Revoke ==
  /\ \E S \in SUBSET {g \in Gran : \A c \in Clients : g \notin HeldBy(c)} :
       win' = [g \in Gran |-> IF g \in S THEN Blocked ELSE win[g]]
  /\ UNCHANGED <<attached, pc, held>>

Next ==
  \/ Attach \/ Detach \/ Revoke
  \/ \E c \in Clients : Unmap(c) \/ \E r \in Reqs : Map(c, r)

Spec == Init /\ [][Next]_avars

=============================================================================
