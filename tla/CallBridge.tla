------------------------------ MODULE CallBridge ------------------------------
(***************************************************************************)
(* The firmware call bridge of goefi/pkg/uefi/call.go.  Goroutines issue   *)
(* firmware calls through one of the UefiCallN entry points:               *)
(*   "call3"  UefiCall3: callService, which holds the global mux across   *)
(*            callFn (Lock; defer Unlock);                                 *)
(*   "call5"  UefiCall5: callFn directly, without the mux;                *)
(*   "asm"    UefiCall0/1/2/4/6..10, bodies in uefi.s (not in the tree):   *)
(*            modelled as the specification asks, through the mux.         *)
(* Goroutines interleave arbitrarily (Go gives no cooperative-only         *)
(* guarantee); a call inside the firmware is one step in and one step out. *)
(***************************************************************************)
EXTENDS Naturals, FiniteSets

CONSTANTS
    Callers,    \* goroutines that issue firmware calls
    Entries,    \* entry points they may use
    Unlocked    \* value of mux when no goroutine holds it

\* Entry points that go through callService's mux.
Locked == {"call3", "asm"}

ASSUME Entries \subseteq {"call3", "call5", "asm"}

VARIABLES
    mux,     \* holder of call.go's sync.Mutex, or Unlocked
    stage,   \* caller -> "idle" | "lock" (waiting in Lock) | "fw" (in callFn)
             \*           | "unlock" (callFn returned, deferred Unlock pending)
    via      \* caller -> entry point of its current call

vars == <<mux, stage, via>>

\* Type invariant: in particular every call uses one of the entry points
\* the configuration allows.
TypeOK ==
    /\ mux \in Callers \cup {Unlocked}
    /\ stage \in [Callers -> {"idle", "lock", "fw", "unlock"}]
    /\ via \in [Callers -> Entries]

InFirmware == {c \in Callers : stage[c] = "fw"}

Init ==
    /\ mux = Unlocked
    /\ stage = [c \in Callers |-> "idle"]
    /\ via \in [Callers -> Entries]

\* A wrapper switched to UefiCall5: every call goes to callFn directly.
CallViaCallFn(c, e) ==
    /\ stage[c] = "idle"
    /\ via' = [via EXCEPT ![c] = "call5"]
    /\ stage' = [stage EXCEPT ![c] = "fw"]
    /\ UNCHANGED mux

\* A goroutine calls UefiCallN: through callService it first takes the mux,
\* UefiCall5 enters callFn at once.
Call(c, e) ==
    /\ stage[c] = "idle"
    /\ via' = [via EXCEPT ![c] = e]
    /\ stage' = [stage EXCEPT ![c] = IF e \in Locked THEN "lock" ELSE "fw"]
    /\ UNCHANGED mux

\* mux.Lock() taken without looking at the holder.
LockNoWait(c) ==
    /\ stage[c] = "lock"
    /\ mux' = c
    /\ stage' = [stage EXCEPT ![c] = "fw"]
    /\ UNCHANGED via

\* callService: mux.Lock(), then callFn.
Lock(c) ==
    /\ stage[c] = "lock"
    /\ mux = Unlocked
    /\ mux' = c
    /\ stage' = [stage EXCEPT ![c] = "fw"]
    /\ UNCHANGED via

\* callService without the deferred Unlock: the mux stays held.
ReturnNoUnlock(c) ==
    /\ stage[c] = "fw"
    /\ stage' = [stage EXCEPT ![c] = "idle"]
    /\ UNCHANGED <<mux, via>>

\* callFn returns the status word; through callService the deferred Unlock
\* is still to run.
Return(c) ==
    /\ stage[c] = "fw"
    /\ stage' = [stage EXCEPT ![c] = IF via[c] \in Locked THEN "unlock" ELSE "idle"]
    /\ UNCHANGED <<mux, via>>

\* defer mux.Unlock()
Unlock(c) ==
    /\ stage[c] = "unlock"
    /\ mux' = Unlocked
    /\ stage' = [stage EXCEPT ![c] = "idle"]
    /\ UNCHANGED via

Next ==
    \E c \in Callers :
        \/ \E e \in Entries : Call(c, e)
        \/ Lock(c)
        \/ Return(c)
        \/ Unlock(c)

\* The firmware returns from every call and the deferred Unlock runs
\* (weak fairness on each goroutine's Return and Unlock).  A free mux is
\* taken by some waiter (weak fairness on the set of Lock steps): TinyGo's
\* sync.Mutex hands the lock on to a waiter, but which one is up to its
\* cooperative scheduler, so no single waiter is promised the mux.
Fairness ==
    /\ \A c \in Callers : WF_vars(Return(c)) /\ WF_vars(Unlock(c))
    /\ WF_vars(\E c \in Callers : Lock(c))

Spec == Init /\ [][Next]_vars

FairSpec == Spec /\ Fairness

-----------------------------------------------------------------------------
(* Properties *)

\* (spec 4.1, 8 scenario D) At most one firmware call is in flight at any
\* time, whichever goroutines issue calls and however they interleave.
SerializedFirmwareCalls == Cardinality(InFirmware) <= 1

\* While a goroutine waits in callService's mux.Lock, some goroutine
\* eventually gets through the mux into callFn: the call that holds the mux
\* returns and its deferred Unlock releases it, so the bridge never stalls
\* with every waiter blocked on a mux nobody will release.
MuxHandedOn ==
    (\E c \in Callers : stage[c] = "lock")
        ~> (\E c \in Callers : stage[c] = "fw" /\ via[c] \in Locked)

=============================================================================
