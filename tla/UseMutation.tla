----------------------------- MODULE UseMutation -----------------------------
(***************************************************************************)
(* One instance of the useMutation hook: calls of mutate that overlap, the *)
(* counter and the mounted flag they share, and the state that the          *)
(* component renders.  React is external: it runs the effect when the       *)
(* component mounts and its cleanup when it unmounts, and under StrictMode  *)
(* in a development build it runs effect, cleanup and effect at the mount.  *)
(***************************************************************************)
EXTENDS Integers, FiniteSets

CONSTANTS
  MutateCall,  \* calls of mutate, each made once
  StrictMode   \* the component is mounted the StrictMode way

ASSUME HookAssumption == StrictMode \in BOOLEAN

VARIABLES
  component,    \* "new", "mounted" or "gone"
  mountedRef, inFlightRef,
  isPending,    \* what the component renders
  lastError,    \* the call whose rejection it renders, or NoError
  mutateCall    \* per call: "idle", "running" or "settled"

hookVars == <<component, mountedRef, inFlightRef, isPending, lastError, mutateCall>>

NoError == "no error"

HookInit ==
  /\ component = "new"
  /\ mountedRef = TRUE /\ inFlightRef = 0
  /\ isPending = FALSE /\ lastError = NoError
  /\ mutateCall = [c \in MutateCall |-> "idle"]

(* The effect does nothing but return its cleanup, which StrictMode runs    *)
(* once right away.                                                        *)
Mount ==
  /\ component = "new"
  /\ component' = "mounted"
  /\ mountedRef' = ~StrictMode
  /\ UNCHANGED <<inFlightRef, isPending, lastError, mutateCall>>

Unmount ==
  /\ component = "mounted"
  /\ component' = "gone"
  /\ mountedRef' = FALSE
  /\ UNCHANGED <<inFlightRef, isPending, lastError, mutateCall>>

(* mutate up to its await; a handler kept beyond the unmount may call it.  *)
Mutate(c) ==
  LET shows == inFlightRef = 0 /\ mountedRef IN
  /\ component # "new" /\ mutateCall[c] = "idle"
  /\ mutateCall' = [mutateCall EXCEPT ![c] = "running"]
  /\ inFlightRef' = inFlightRef + 1
  /\ isPending' = (isPending \/ shows)
  /\ lastError' = IF shows THEN NoError ELSE lastError
  /\ UNCHANGED <<component, mountedRef>>

(* The finally block: the last call to settle ends the pending state.      *)
(* Mutant: any call ends it.                                               *)
PendingAfter_AnyCall(n) == isPending /\ ~mountedRef
PendingAfter(n) == isPending /\ ~(n = 0 /\ mountedRef)

Settle(c) ==
  /\ mutateCall[c] = "running"
  /\ mutateCall' = [mutateCall EXCEPT ![c] = "settled"]
  /\ inFlightRef' = inFlightRef - 1
  /\ isPending' = PendingAfter(inFlightRef - 1)
  /\ UNCHANGED <<component, mountedRef>>

Resolves(c) == Settle(c) /\ UNCHANGED lastError

(* The catch block, then the finally block, without an await in between.   *)
Rejects(c) == Settle(c) /\ lastError' = IF mountedRef THEN c ELSE lastError

HookNext ==
  \/ Mount \/ Unmount
  \/ \E c \in MutateCall : Mutate(c) \/ Resolves(c) \/ Rejects(c)

HookSpec == HookInit /\ [][HookNext]_hookVars

-----------------------------------------------------------------------------
(* use-mutation.ts: isPending is "refcounted across concurrent submits -   *)
(* `true` until every in-flight call settles".  A mounted component renders *)
(* a pending state exactly while a call of its own is under way, however   *)
(* calls overlap.                                                          *)
PendingIsTrue ==
  component = "mounted" => (isPending <=> \E c \in MutateCall : mutateCall[c] = "running")

(* The same comment on error: "the most recent rejection until the next    *)
(* successful call clears it".  A call that succeeds leaves no error       *)
(* behind.                                                                 *)
SuccessClearsError ==
  [][\A c \in MutateCall :
       mutateCall[c] = "running" /\ Resolves(c) /\ component = "mounted" => lastError' = NoError]_hookVars
=============================================================================
