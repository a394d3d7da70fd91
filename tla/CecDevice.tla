------------------------------ MODULE CecDevice ------------------------------
(***************************************************************************)
(* CecDevice: every 250 ms the session looks at the HDMI adapter, claims a *)
(* playback address on it where none is configured, and answers the        *)
(* messages that came in.  The physical address goes and comes back, or    *)
(* becomes another, between any two calls; messages wait in the kernel.    *)
(* An error ends the session.                                              *)
(*                                                                         *)
(* The adapter and the TV are external.  Power status, remote control keys *)
(* and their filter are left out.                                          *)
(***************************************************************************)
EXTENDS Naturals, Sequences

CONSTANTS
    Paths,       \* physical addresses the adapter may have, or the TV select
    MaxRoutings, \* bound: messages of the TV
    MaxPlugs     \* bound: changes of the physical address

ASSUME CecConstants == Paths # {} /\ {MaxRoutings, MaxPlugs} \subseteq Nat

VARIABLES
    adapter, \* physical: none or an address; config; claimed; inbox
    cec,     \* physical_, logical_ and active_source_; seen: the address that an
             \* update() under way has read; failed: an error was thrown
    routing  \* the path the TV named last, of those the session knows to be about
             \* its present address: a history; and how often things changed

cecVars == <<adapter, cec, routing>>

Unplugged == {}
Addresses == {Unplugged} \cup {{p} : p \in Paths}
Operations == {"set_stream_path", "active_source"}
Messages == [op : Operations, path : Paths] \cup [op : {"request_active_source"}]

CecInit ==
    /\ adapter \in [physical : Addresses, config : {"none", "ours", "other"},
                    claimed : {FALSE}, inbox : {<<>>}]
    /\ cec = [physical |-> Unplugged, logical |-> FALSE, active |-> FALSE,
              seen |-> {}, failed |-> FALSE]
    /\ routing = [last |-> {}, messages |-> 0, plugs |-> 0]

-----------------------------------------------------------------------------
(* The adapter and the TV.                                                 *)

\* The physical address changes: any claim is lost.
HotPlug ==
    /\ routing.plugs < MaxPlugs
    /\ \E p \in Addresses \ {adapter.physical} :
         adapter' = [adapter EXCEPT !.physical = p, !.claimed = FALSE]
    /\ routing' = [routing EXCEPT !.plugs = @ + 1]
    /\ UNCHANGED cec

\* The kernel claims the configured address.
ClaimAddress ==
    /\ adapter.config = "ours" /\ adapter.physical # Unplugged /\ ~adapter.claimed
    /\ adapter' = [adapter EXCEPT !.claimed = TRUE]
    /\ UNCHANGED <<cec, routing>>

TvSends(message) ==
    /\ adapter.claimed /\ routing.messages < MaxRoutings
    /\ adapter' = [adapter EXCEPT !.inbox = Append(@, message)]
    /\ routing' = [routing EXCEPT !.messages = @ + 1]
    /\ UNCHANGED cec

-----------------------------------------------------------------------------
(* update(): two calls, with the adapter free to change between them.      *)

ReadPhysical ==
    /\ ~cec.failed /\ cec.seen = {}
    /\ cec' = [cec EXCEPT !.seen = {adapter.physical}]
    /\ UNCHANGED <<adapter, routing>>

Inactive(c) == [c EXCEPT !.logical = FALSE, !.active = FALSE]

\* Mutant: the address of the first claim is kept.
KeepsAddress(physical) ==
    [cec EXCEPT !.physical = IF @ = Unplugged THEN physical ELSE @, !.logical = TRUE]

\* Mutant: a claimed address is taken over, whatever address was active.
KeepsActive(physical) == [cec EXCEPT !.physical = physical, !.logical = TRUE]

\* The address is claimed: another one than before is not active.
Confirmed(physical) ==
    [cec EXCEPT !.physical = physical, !.logical = TRUE,
                !.active = @ /\ cec.physical \in {Unplugged, physical}]

\* The session sees that its address is another one, or not there.
Forgets(known) == [routing EXCEPT !.last = IF known THEN @ ELSE {}]

\* A configuration that is not ours is left alone; where there is none, ours is
\* written.  While an address is waited for, the old one stays in physical_.
ReadLogical ==
    \E physical \in cec.seen :
      LET done == [cec EXCEPT !.seen = {}]
      IN \/ /\ adapter.config = "other"
            /\ cec' = [done EXCEPT !.failed = TRUE]
            /\ UNCHANGED <<adapter, routing>>
         \/ /\ adapter.config # "other" /\ physical = Unplugged
            /\ cec' = [Inactive(done) EXCEPT !.physical = Unplugged]
            /\ routing' = Forgets(FALSE)
            /\ UNCHANGED adapter
         \/ /\ adapter.config = "none" /\ physical # Unplugged
            /\ \/ /\ cec' = [Inactive(done) EXCEPT !.physical = physical]
                  /\ adapter' = [adapter EXCEPT !.config = "ours"]
               \/ /\ cec' = [Inactive(done) EXCEPT !.physical = physical, !.failed = TRUE]
                  /\ UNCHANGED adapter
            /\ routing' = Forgets(FALSE)
         \/ /\ adapter.config = "ours" /\ physical # Unplugged /\ ~adapter.claimed
            /\ cec' = Inactive(done)
            /\ routing' = Forgets(FALSE)
            /\ UNCHANGED adapter
         \/ /\ adapter.config = "ours" /\ physical # Unplugged /\ adapter.claimed
            /\ cec' = [Confirmed(physical) EXCEPT !.seen = {}]
            /\ routing' = Forgets(cec.physical = physical)
            /\ UNCHANGED adapter

-----------------------------------------------------------------------------
(* receive()                                                               *)

\* set_active_source(), and report_active_source() where it is asked for: a
\* report without an address, or one the kernel does not send, is an error.
Routed(c, active, reports) ==
    LET now == [c EXCEPT !.active = active]
    IN IF ~(reports /\ active) THEN {now}
       ELSE {[now EXCEPT !.failed = TRUE]} \cup IF c.logical THEN {now} ELSE {}

ReceiveMessage ==
    /\ ~cec.failed /\ cec.seen = {} /\ adapter.inbox # <<>>
    /\ LET message == Head(adapter.inbox)
       IN \/ /\ message.op = "request_active_source"
             /\ cec' \in Routed(cec, cec.active, TRUE)
             /\ UNCHANGED routing
          \/ /\ message.op \in Operations
             /\ cec' \in Routed(cec, cec.physical = {message.path},
                                message.op = "set_stream_path")
             /\ routing' = [routing EXCEPT !.last = {message.path}]
    /\ adapter' = [adapter EXCEPT !.inbox = Tail(@)]

CecNext ==
    \/ HotPlug \/ ClaimAddress \/ ReadPhysical \/ ReadLogical \/ ReceiveMessage
    \/ \E message \in Messages : TvSends(message)

\* The session runs, and the kernel completes a claim.
CecFairness ==
    /\ WF_cecVars(ReadPhysical) /\ WF_cecVars(ReadLogical)
    /\ WF_cecVars(ReceiveMessage) /\ WF_cecVars(ClaimAddress)

CecSpec == CecInit /\ [][CecNext]_cecVars /\ CecFairness

-----------------------------------------------------------------------------
CecType ==
    /\ adapter.physical \in Addresses /\ cec.physical \in Addresses
    /\ cec.seen \in {{}} \cup {{a} : a \in Addresses}

\* The player claims to be the active source only when the last path the TV
\* named is its own, named since it knows of its address: not because of what
\* it was before the cable was pulled or the address became another.
ActiveIsRouted == CecType /\ (cec.active => routing.last = cec.physical)

\* An adapter that stays plugged is registered in the end, unless an error
\* ended the session.
Registers ==
    <>[](adapter.physical # Unplugged) =>
      <>[](cec.failed \/ (cec.logical /\ cec.physical = adapter.physical))
=============================================================================
