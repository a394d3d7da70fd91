--------------------------- MODULE MediaRequests ---------------------------
(***************************************************************************)
(* What MediaWorker promises to the session that uses it: one request at a *)
(* time, carried out at most once, and answered at most once.  A request   *)
(* stands until it is withdrawn, and is allowed until the device it is for *)
(* is seen to change.  The drive is touched only for one that stands and   *)
(* is allowed; an answer is given only to one that was allowed all through *)
(* its operation and still stands; and such a one is answered.  One that   *)
(* is withdrawn while it is carried out is in the way of the next until    *)
(* its operation is over.                                                  *)
(***************************************************************************)
CONSTANTS
    Requests,
    NoRequest

VARIABLES
    request,    \* what was asked for and is neither answered nor given up
    phase,      \* how far it has come: none, asked, running, returned, kept, refused
    standing,   \* it was not withdrawn
    allowed,    \* its device was not seen to change
    answers     \* what was answered and is not collected, at most one

requestsVars == <<request, phase, standing, allowed, answers>>

Gone == request' = NoRequest /\ phase' = "none" /\ standing' = FALSE /\ allowed' = FALSE

Init ==
    /\ request = NoRequest /\ phase = "none" /\ standing = FALSE /\ allowed = FALSE
    /\ answers = <<>>

Ask ==
    /\ phase = "none" /\ answers = <<>>
    /\ request' \in Requests /\ phase' = "asked"
    /\ standing' = TRUE /\ allowed' \in BOOLEAN
    /\ UNCHANGED answers

Goes(from, to) == phase = from /\ phase' = to /\ UNCHANGED <<request, standing, allowed, answers>>

\* The operation begins, and returns; its result is kept or refused.
Begin == standing /\ allowed /\ Goes("asked", "running")
Return == Goes("running", "returned")
Keep == allowed /\ Goes("returned", "kept")
Refuse == ~(standing /\ allowed) /\ (Goes("asked", "refused") \/ Goes("returned", "refused"))

Answer ==
    /\ phase = "kept" /\ standing
    /\ answers' = <<request>>
    /\ Gone

GiveUp ==
    /\ phase = "refused" \/ (phase = "kept" /\ ~standing)
    /\ Gone
    /\ UNCHANGED answers

Collect ==
    /\ answers # <<>> /\ answers' = <<>>
    /\ UNCHANGED <<request, phase, standing, allowed>>

\* The device is seen to change: whatever is decided later is decided so.
Lapse ==
    /\ allowed' = FALSE
    /\ UNCHANGED <<request, phase, standing, answers>>

\* What was not begun may be forgotten at once, and so is an answer.
Withdraw ==
    /\ answers' = <<>>
    /\ \/ phase = "asked" /\ Gone
       \/ standing' = FALSE /\ allowed' \in {allowed, FALSE} /\ UNCHANGED <<request, phase>>

Next ==
    \/ Lapse \/ Withdraw
    \/ Ask \/ Begin \/ Return \/ Keep \/ Refuse \/ Answer \/ GiveUp \/ Collect

Spec == Init /\ [][Next]_requestsVars
=============================================================================
