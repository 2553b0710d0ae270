---------------------------- MODULE DelegateProxy ----------------------------
(***************************************************************************)
(* client_delegate_proxy: the pointer to the application's delegate behind *)
(* a std::shared_mutex.  Every callback of the library goes through        *)
(* invoke, which holds the mutex shared while the delegate runs; ~client   *)
(* takes it exclusively to drop the pointer, after which the application   *)
(* may destroy the delegate.  A callback may lead to another one on the    *)
(* same thread: stop() in a callback calls on_status_changed.              *)
(***************************************************************************)
EXTENDS Naturals

CONSTANTS
  Threads,          \* the threads that call invoke
  WriterPreferred   \* whether a shared_mutex makes readers wait for a waiting writer

ASSUME ProxyAssumption == WriterPreferred \in BOOLEAN

VARIABLES
  handler,    \* whether handler_ points to a delegate
  depth,      \* the invocations each thread is in: shared locks it holds
  resetting   \* reset(nullptr): not called, waiting for the mutex, returned

proxyVars == <<handler, depth, resetting>>

ProxyTypeOK ==
  /\ handler \in BOOLEAN
  /\ depth \in [Threads -> Nat]
  /\ resetting \in {"no", "waiting", "returned"}

(* client's constructor has set the delegate. *)
ProxyInit ==
  /\ handler = TRUE
  /\ depth = [t \in Threads |-> 0]
  /\ resetting = "no"

(* invoke up to the delegate's function, or all of it when there is none. *)
Enter(t) ==
  /\ WriterPreferred => resetting # "waiting"
  /\ depth' = IF handler THEN [depth EXCEPT ![t] = @ + 1] ELSE depth
  /\ UNCHANGED <<handler, resetting>>

(* Mutant: only the outermost invocation releases its lock. *)
Leave_Outermost(t) ==
  /\ depth[t] > 0
  /\ depth' = [depth EXCEPT ![t] = IF @ = 1 THEN 0 ELSE @]
  /\ UNCHANGED <<handler, resetting>>

(* The delegate's function returns, and the lock is released. *)
Leave(t) ==
  /\ depth[t] > 0
  /\ depth' = [depth EXCEPT ![t] = @ - 1]
  /\ UNCHANGED <<handler, resetting>>

(* ~client calls reset(nullptr). *)
BeginReset ==
  /\ resetting = "no"
  /\ resetting' = "waiting"
  /\ UNCHANGED <<handler, depth>>

(* Mutant: the pointer is dropped without the mutex. *)
Reset_Unlocked ==
  /\ resetting = "waiting"
  /\ handler' = FALSE
  /\ resetting' = "returned"
  /\ UNCHANGED depth

(* It gets the mutex once no thread is in the delegate. *)
Reset ==
  /\ resetting = "waiting"
  /\ \A t \in Threads : depth[t] = 0
  /\ handler' = FALSE
  /\ resetting' = "returned"
  /\ UNCHANGED depth

ProxyNext ==
  \/ \E t \in Threads : Enter(t) \/ Leave(t)
  \/ BeginReset
  \/ Reset

ProxySpec == ProxyInit /\ [][ProxyNext]_proxyVars

-----------------------------------------------------------------------------
(* Once ~client's reset has returned no thread is in the delegate, and none
   will ever be: the application may destroy it, whatever messages are still
   being handled. *)
NoCallAfterReset ==
  resetting = "returned" => ~handler /\ \A t \in Threads : depth[t] = 0

(* ~client returns: the callbacks under way end and the mutex is had. *)
ResetReturns == resetting = "waiting" ~> resetting = "returned"
=============================================================================
