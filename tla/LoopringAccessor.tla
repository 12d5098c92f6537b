--------------------------- MODULE LoopringAccessor -------------------------
(* loopringaccessor: Initialize fills loopringParams in place, from calls    *)
(* that may fail, and is called again by a program that retries; goroutines  *)
(* ask what protocols there are and read the state of the delegates, each    *)
(* in two looks at loopringParams.                                           *)
EXTENDS Integers
CONSTANTS Contracts,    \* options.Address: the protocol contracts
          DelegateOf,   \* on chain: contract -> delegate, which they may share
          Readers,
          MaxErr        \* bound on failed calls and ABIs
VARIABLES params,       \* loopringParams: the ABIs and addresses set so far
          init,         \* where Initialize is, or how it returned
          left, impl, calls,  \* versions left; the one in hand and the calls made for it
          reader, asked,  \* of a reader: where it is, and the contract it asked about
          errs

vars == <<params, init, left, impl, calls, reader, asked, errs>>

Abis == {"erc20", "weth", "impl", "delegate", "registry"}
NoParams == [set |-> FALSE, abis |-> {}, protocols |-> {}, delegates |-> {}]

Init ==
  /\ params = NoParams /\ init = "none" /\ left = {} /\ calls = 0 /\ errs = 0
  /\ impl = CHOOSE c \in Contracts : TRUE
  /\ reader = [r \in Readers |-> "idle"] /\ asked = [r \in Readers |-> impl]

IsInit == params.set

\* Initialize: a new object is visible from its first line on; the two ABIs that
\* are constants of the program parse.
Initialize ==
  /\ init \in {"none", "failed"} /\ init' = "impl" /\ left' = Contracts
  /\ params' = [NoParams EXCEPT !.set = TRUE, !.abis = {"erc20", "weth"}]
  /\ UNCHANGED <<impl, calls, reader, asked, errs>>

\* A call, a download or an ABI fails and Initialize returns the error: what it
\* has stored stays.
Fails ==
  /\ init \in {"impl", "version", "delegate", "registry"}
  /\ init = "version" => calls < 3
  /\ errs < MaxErr /\ errs' = errs + 1 /\ init' = "failed"
  /\ UNCHANGED <<params, left, impl, calls, reader, asked>>

\* The next version of options.Address, in any order, or none is left.
NextVersion ==
  IF left = {} THEN init' = "delegate" /\ UNCHANGED <<left, impl, calls>>
  ELSE /\ init' = "version" /\ calls' = 0
       /\ \E c \in left : impl' = c /\ left' = left \ {c}

ImplAbi ==
  /\ init = "impl" /\ NextVersion
  /\ params' = [params EXCEPT !.abis = @ \cup {"impl"}]
  /\ UNCHANGED <<reader, asked, errs>>

\* lrcTokenAddress, tokenRegistryAddress and delegateAddress of the contract.
CallMethod ==
  /\ init = "version" /\ calls < 3 /\ calls' = calls + 1
  /\ UNCHANGED <<params, init, left, impl, reader, asked, errs>>

StoreProtocol ==
  /\ init = "version" /\ calls = 3 /\ calls' = 4
  /\ params' = [params EXCEPT !.protocols = @ \cup {impl}]
  /\ UNCHANGED <<init, left, impl, reader, asked, errs>>

StoreDelegate ==
  /\ init = "version" /\ calls = 4 /\ NextVersion
  /\ params' = [params EXCEPT !.delegates = @ \cup {DelegateOf[impl]}]
  /\ UNCHANGED <<reader, asked, errs>>

\* A mutation: an ABI that cannot be had is skipped.
DelegateAbiSkipped ==
  /\ init = "delegate" /\ init' = "registry"
  /\ params' = [params EXCEPT !.abis = IF errs > 0 THEN @ ELSE @ \cup {"delegate"}]
  /\ UNCHANGED <<left, impl, calls, reader, asked, errs>>

DelegateAbi ==
  /\ init = "delegate" /\ init' = "registry"
  /\ params' = [params EXCEPT !.abis = @ \cup {"delegate"}]
  /\ UNCHANGED <<left, impl, calls, reader, asked, errs>>

TokenRegistryAbi ==
  /\ init = "registry" /\ init' = "ready"
  /\ params' = [params EXCEPT !.abis = @ \cup {"registry"}]
  /\ UNCHANGED <<left, impl, calls, reader, asked, errs>>

\* A goroutine that waits for IsInit: GetSpenderAddress, or an error for a protocol that is not there.
GetSpenderAddress(r, c) ==
  /\ reader[r] = "idle" /\ IsInit
  /\ asked' = [asked EXCEPT ![r] = c]
  /\ reader' = [reader EXCEPT ![r] = IF c \in params.protocols THEN "spender" ELSE "refused"]
  /\ UNCHANGED <<params, init, left, impl, calls, errs>>

\* GetCancelledOrFilled, GetCancelled, GetCutoff and GetCutoffPair of that spender:
\* the address has to be a delegate ...
CheckDelegate(r) ==
  /\ reader[r] = "spender"
  /\ reader' = [reader EXCEPT ![r] =
       IF DelegateOf[asked[r]] \in params.delegates THEN "checked" ELSE "refused"]
  /\ UNCHANGED <<params, init, left, impl, calls, asked, errs>>

\* ... and then its ABI is used, which panics when it is nil.
UseDelegate(r) ==
  /\ reader[r] = "checked"
  /\ reader' = [reader EXCEPT ![r] = IF "delegate" \in params.abis THEN "idle" ELSE "panicked"]
  /\ UNCHANGED <<params, init, left, impl, calls, asked, errs>>

\* The caller gets the error and asks again.
Refused(r) ==
  /\ reader[r] = "refused" /\ reader' = [reader EXCEPT ![r] = "idle"]
  /\ UNCHANGED <<params, init, left, impl, calls, asked, errs>>

Next ==
  \/ Initialize \/ Fails \/ ImplAbi \/ CallMethod \/ StoreProtocol \/ StoreDelegate
  \/ DelegateAbi \/ TokenRegistryAbi
  \/ \E r \in Readers : \/ CheckDelegate(r) \/ UseDelegate(r) \/ Refused(r)
                        \/ \E c \in Contracts : GetSpenderAddress(r, c)

Spec == Init /\ [][Next]_vars

-----------------------------------------------------------------------------
(* Nothing is in loopringParams that Initialize does not put there, and the  *)
(* delegates lag behind the protocols by the version in hand at most.        *)
TypeOK ==
  /\ params.abis \subseteq Abis /\ params.protocols \subseteq Contracts /\ calls \in 0 .. 4
  /\ params.delegates \subseteq {DelegateOf[c] : c \in params.protocols}
  /\ \A c \in params.protocols :
       DelegateOf[c] \in params.delegates \/ (c = impl /\ init = "version")

(* From when Initialize returns nil, however often it failed before, every   *)
(* contract of the options is served: no question is refused and no ABI is   *)
(* missing, also when a goroutine began its question on what an earlier      *)
(* attempt had left.                                                         *)
ReadyServes ==
  [][init = "ready" => \A r \in Readers :
       reader'[r] \in {"refused", "panicked"} => reader'[r] = reader[r]]_vars
=============================================================================
