----------------------------- MODULE IOChannel -----------------------------
(***************************************************************************)
(* The IOChannel class of cygcd and the registry of I/O callbacks          *)
(* (src/src/cygcd/_core.pyx).  A block given to libdispatch holds only a   *)
(* number, under which the trampolines look the Python callback up.        *)
(*                                                                         *)
(* No libdispatch call is made with the interpreter lock held, so each     *)
(* action is one stretch of code under the lock or one libdispatch call,   *)
(* and the lock is no variable.                                            *)
(***************************************************************************)
EXTENDS Integers, FiniteSets

CONSTANTS
    Clients,        \* Python threads
    Ops, Barriers,  \* operations; those that are not barriers are reads and writes
    Cleanup,        \* the cleanup handler
    MaxParts,       \* MaxParts[o]: bound on the partial results of operation o
    NoOp

ASSUME ChannelAssumption ==
    /\ IsFiniteSet(Clients) /\ IsFiniteSet(Ops) /\ Barriers \subseteq Ops
    /\ Cleanup \notin Ops /\ NoOp \notin Ops /\ MaxParts \in [Ops -> Nat]

Callbacks == Ops \cup {Cleanup}

VARIABLES
    wrapper,    \* the Python object: "new", "creating", "alive", "closing", "gone", "failed"
    closed,     \* the _closed flag
    held,       \* the wrapper holds the cleanup handler in _cleanup_handler
    channel,    \* the native channel: "none", "open", "closed" or "stopped"
    registry,   \* the callbacks in _iochannel_callbacks
    refs,       \* refs[x]: references on callback x beyond the program's own
    blocks,     \* blocks[x]: references on the block made for x
    op,         \* op[o]: "new", "given", "accepted", "started" or "complete"
    before,     \* before[o]: the operations libdispatch took on before o
    parts,      \* parts[o]: partial results o may still have
    due,        \* due[x]: the calls of the block of x that are due
    calling,    \* calling[x]: the call of x being made: "none", "part" or "last"
    answered,   \* the callbacks whose last call is over
    call        \* call[c]: the call c is in the middle of

nativeVars == <<channel, op, before, parts, due>>
vars == <<wrapper, closed, held, registry, refs, blocks, nativeVars, calling, answered, call>>

NoCall == [at |-> "none", o |-> NoOp]
NoneDue == [parts |-> 0, last |-> FALSE]

(* Definitions named ..._Wrong are deliberately faulty variants of the one that *)
(* follows: each breaks a property below, which shows what the property is for. *)

Init ==
    /\ wrapper = "new"
    /\ closed = FALSE
    /\ held = FALSE
    /\ channel = "none"
    /\ registry = {}
    /\ refs = [x \in Callbacks |-> 0]
    /\ blocks = [x \in Callbacks |-> 0]
    /\ op = [o \in Ops |-> "new"]
    /\ before = [o \in Ops |-> {}]
    /\ parts = MaxParts
    /\ due = [x \in Callbacks |-> NoneDue]
    /\ calling = [x \in Callbacks |-> "none"]
    /\ answered = {}
    /\ call = [c \in Clients |-> NoCall]

-----------------------------------------------------------------------------
One(b) == IF b THEN 1 ELSE 0

(* The registry: it has a reference on a callback of its own, and one more is     *)
(* taken and given back with it; n are those the wrapper takes or gives back with *)
(* them.  Each block is made with one reference.                                  *)
Register_Wrong(x, n) ==  \* without Py_INCREF
    /\ registry' = registry \cup {x}
    /\ refs' = [refs EXCEPT ![x] = @ + 1 + n]
    /\ blocks' = [blocks EXCEPT ![x] = @ + 1]

Register(x, n) ==
    /\ registry' = registry \cup {x}
    /\ refs' = [refs EXCEPT ![x] = @ + 2 + n]
    /\ blocks' = [blocks EXCEPT ![x] = @ + 1]

Unregister(x, n) ==
    /\ registry' = registry \ {x}
    /\ refs' = [refs EXCEPT ![x] = @ - 2 * One(x \in registry) - n]

(* The constructor, with or without a cleanup handler; libdispatch creates the    *)
(* channel, or none if it is asked for one of an unknown type, and the wrapper is *)
(* freed with all that it holds.                                                  *)
Create ==
    /\ wrapper = "new"
    /\ wrapper' = "creating"
    /\ \/ held' = TRUE /\ Register(Cleanup, 1)
       \/ UNCHANGED <<held, registry, refs, blocks>>
    /\ UNCHANGED <<closed, nativeVars, calling, answered, call>>

NativeCreate ==
    /\ wrapper = "creating"
    /\ wrapper' = "alive" /\ channel' = "open"
    /\ blocks' = [blocks EXCEPT ![Cleanup] = IF Cleanup \in registry THEN @ + 1 ELSE @]
    /\ UNCHANGED <<closed, held, registry, refs, op, before, parts, due, calling, answered,
                   call>>

CreateFailed_Wrong ==  \* without _cygcd_release_block
    /\ wrapper = "creating"
    /\ wrapper' = "failed" /\ held' = FALSE
    /\ Unregister(Cleanup, One(held))
    /\ UNCHANGED <<closed, blocks, nativeVars, calling, answered, call>>

CreateFailed ==
    /\ wrapper = "creating"
    /\ wrapper' = "failed" /\ held' = FALSE
    /\ Unregister(Cleanup, One(held))
    /\ blocks' = [blocks EXCEPT ![Cleanup] = 0]
    /\ UNCHANGED <<closed, nativeVars, calling, answered, call>>

-----------------------------------------------------------------------------
(* read, write and barrier: the flag is tested, the callback registered and the   *)
(* block made; then, without the lock, libdispatch takes the operation on, or     *)
(* answers a read or write with an error if the channel is closed after all.      *)
Submit_Wrong(c, o) ==  \* the callback not registered
    /\ wrapper = "alive" /\ call[c] = NoCall /\ ~closed /\ op[o] = "new"
    /\ op' = [op EXCEPT ![o] = "given"]
    /\ call' = [call EXCEPT ![c] = [at |-> "submit", o |-> o]]
    /\ blocks' = [blocks EXCEPT ![o] = @ + 1]
    /\ UNCHANGED <<wrapper, closed, held, registry, refs, channel, before, parts, due,
                   calling, answered>>

Submit(c, o) ==
    /\ wrapper = "alive" /\ call[c] = NoCall /\ ~closed /\ op[o] = "new"
    /\ Register(o, 0)
    /\ op' = [op EXCEPT ![o] = "given"]
    /\ call' = [call EXCEPT ![c] = [at |-> "submit", o |-> o]]
    /\ UNCHANGED <<wrapper, closed, held, channel, before, parts, due, calling, answered>>

Submitted(c) ==
    /\ call[c].at = "submit"
    /\ call' = [call EXCEPT ![c] = NoCall]
    /\ blocks' = [blocks EXCEPT ![call[c].o] = @ + 1]
    /\ UNCHANGED <<wrapper, closed, held, registry, refs, channel, parts, calling, answered>>

NativeAccept(c) ==
    /\ channel = "open" \/ call[c].o \in Barriers
    /\ Submitted(c)
    /\ before' = [before EXCEPT ![call[c].o] = {p \in Ops : op[p] \notin {"new", "given"}}]
    /\ op' = [op EXCEPT ![call[c].o] = "accepted"]
    /\ UNCHANGED due

NativeRefuse(c) ==
    /\ channel # "open" /\ call[c].o \notin Barriers
    /\ Submitted(c)
    /\ op' = [op EXCEPT ![call[c].o] = "complete"]
    /\ due' = [due EXCEPT ![call[c].o].last = TRUE]
    /\ UNCHANGED before

-----------------------------------------------------------------------------
(* close, which returns at once if the flag is set, and sets it when the lock is  *)
(* taken again; and __dealloc__, which nobody's call can meet and with which the  *)
(* wrapper gives back what it holds.                                              *)
Close(c, stop) ==
    /\ wrapper = "alive" /\ call[c] = NoCall /\ ~closed
    /\ call' = [call EXCEPT ![c] = [at |-> IF stop THEN "stop" ELSE "close", o |-> NoOp]]
    /\ UNCHANGED <<wrapper, closed, held, registry, refs, blocks, nativeVars, calling,
                   answered>>

NativeClosed(stop) ==
    /\ channel' = IF stop \/ channel = "stopped" THEN "stopped" ELSE "closed"
    /\ UNCHANGED <<op, before, parts, due>>

NativeClose(c) ==
    /\ call[c].at \in {"stop", "close"}
    /\ NativeClosed(call[c].at = "stop")
    /\ call' = [call EXCEPT ![c].at = "closed"]
    /\ UNCHANGED <<wrapper, closed, held, registry, refs, blocks, calling, answered>>

CloseReturn(c) ==
    /\ call[c].at = "closed"
    /\ closed' = TRUE
    /\ call' = [call EXCEPT ![c] = NoCall]
    /\ UNCHANGED <<wrapper, held, registry, refs, blocks, nativeVars, calling, answered>>

Dealloc_Wrong ==  \* not closed
    /\ wrapper = "alive" /\ \A c \in Clients : call[c] = NoCall
    /\ wrapper' = "gone" /\ held' = FALSE
    /\ refs' = [refs EXCEPT ![Cleanup] = @ - One(held)]
    /\ UNCHANGED <<closed, registry, blocks, nativeVars, calling, answered, call>>

Dealloc ==
    /\ wrapper = "alive" /\ \A c \in Clients : call[c] = NoCall
    /\ wrapper' = "gone" /\ held' = FALSE
    /\ refs' = [refs EXCEPT ![Cleanup] = @ - One(held)]
    /\ IF closed THEN UNCHANGED nativeVars ELSE NativeClosed(FALSE)
    /\ UNCHANGED <<closed, registry, blocks, calling, answered, call>>

-----------------------------------------------------------------------------
(* What libdispatch does with the operations it has taken on.  A barrier is done  *)
(* with when its block has been called.                                           *)
Over(o) == op[o] = "complete"
Through(o) == Over(o) /\ ~due[o].last /\ calling[o] = "none"
Finish(o) ==
    /\ op' = [op EXCEPT ![o] = "complete"]
    /\ due' = [due EXCEPT ![o].last = TRUE]

NativeStart(o) ==
    /\ op[o] = "accepted"
    /\ \A p \in before[o] \cap Barriers : Through(p)
    /\ IF o \in Barriers
       THEN (\A p \in before[o] : Over(p)) /\ Finish(o)
       ELSE op' = [op EXCEPT ![o] = "started"] /\ UNCHANGED due
    /\ UNCHANGED <<wrapper, closed, held, registry, refs, blocks, channel, before, parts,
                   calling, answered, call>>

NativePart(o) ==
    /\ op[o] = "started" /\ parts[o] > 0
    /\ parts' = [parts EXCEPT ![o] = @ - 1]
    /\ due' = [due EXCEPT ![o].parts = @ + 1]
    /\ UNCHANGED <<wrapper, closed, held, registry, refs, blocks, channel, op, before,
                   calling, answered, call>>

(* An operation ends by itself, or is interrupted once the channel is stopped.    *)
NativeFinish(o) ==
    /\ \/ op[o] = "started"
       \/ op[o] = "accepted" /\ channel = "stopped" /\ o \notin Barriers
    /\ Finish(o)
    /\ UNCHANGED <<wrapper, closed, held, registry, refs, blocks, channel, before, parts,
                   calling, answered, call>>

(* Control of the descriptor is given up when the channel is closed and what was  *)
(* submitted to it is over.                                                       *)
NativeCleanup ==
    /\ channel \in {"closed", "stopped"} /\ blocks[Cleanup] = 2
    /\ ~due[Cleanup].last /\ calling[Cleanup] = "none"
    /\ \A o \in Ops : op[o] \in {"new", "given", "complete"}
    /\ due' = [due EXCEPT ![Cleanup].last = TRUE]
    /\ UNCHANGED <<wrapper, closed, held, registry, refs, blocks, channel, op, before, parts,
                   calling, answered, call>>

-----------------------------------------------------------------------------
(* The trampolines _cygcd_invoke_...: called by libdispatch one at a time and in  *)
(* order for one block, they look the callback up and call it, which may lose the *)
(* lock, or return if there is none, and unregister it after the last call.       *)
(* libdispatch then drops its reference on the block.                             *)
TrampolineBegin(x) ==
    /\ calling[x] = "none" /\ due[x] # NoneDue
    /\ \/ /\ due[x].parts > 0
          /\ due' = [due EXCEPT ![x].parts = @ - 1]
          /\ calling' = [calling EXCEPT ![x] = IF x \in registry THEN "part" ELSE @]
          /\ UNCHANGED blocks
       \/ /\ due[x].parts = 0
          /\ due' = [due EXCEPT ![x].last = FALSE]
          /\ calling' = [calling EXCEPT ![x] = IF x \in registry THEN "last" ELSE @]
          /\ blocks' = [blocks EXCEPT ![x] = IF x \in registry THEN @ ELSE @ - 1]
    /\ UNCHANGED <<wrapper, closed, held, registry, refs, channel, op, before, parts, answered,
                   call>>

TrampolineEnd_Wrong(x) ==  \* unregistered after any call
    /\ calling[x] # "none"
    /\ calling' = [calling EXCEPT ![x] = "none"]
    /\ Unregister(x, 0)
    /\ IF calling[x] = "last"
       THEN /\ answered' = answered \cup {x}
            /\ blocks' = [blocks EXCEPT ![x] = @ - 1]
       ELSE UNCHANGED <<blocks, answered>>
    /\ UNCHANGED <<wrapper, closed, held, nativeVars, call>>

TrampolineEnd(x) ==
    /\ calling[x] # "none"
    /\ calling' = [calling EXCEPT ![x] = "none"]
    /\ IF calling[x] = "last"
       THEN /\ Unregister(x, 0)
            /\ answered' = answered \cup {x}
            /\ blocks' = [blocks EXCEPT ![x] = @ - 1]
       ELSE UNCHANGED <<registry, refs, blocks, answered>>
    /\ UNCHANGED <<wrapper, closed, held, nativeVars, call>>

Creation == Create \/ NativeCreate \/ CreateFailed
CallStep(c) == NativeAccept(c) \/ NativeRefuse(c) \/ NativeClose(c) \/ CloseReturn(c)
NativeStep(o) == NativeStart(o) \/ NativeFinish(o)
Trampoline(x) == TrampolineBegin(x) \/ TrampolineEnd(x)

Next ==
    \/ Creation \/ Dealloc \/ NativeCleanup
    \/ \E c \in Clients :
        \/ \E o \in Ops : Submit(c, o)
        \/ \E stop \in BOOLEAN : Close(c, stop)
        \/ CallStep(c)
    \/ \E o \in Ops : NativeStep(o) \/ NativePart(o)
    \/ \E x \in Callbacks : Trampoline(x)

Spec == Init /\ [][Next]_vars

(* Calls under way, libdispatch and the descriptor make progress (reads end, for  *)
(* one in the end of the file), and callbacks return.  Nobody is bound to make a  *)
(* call, to close the channel or to drop it.                                      *)
FairSpec ==
    /\ Spec
    /\ WF_vars(NativeCleanup)
    /\ \A c \in Clients : WF_vars(CallStep(c))
    /\ \A o \in Ops : WF_vars(NativeStep(o))
    /\ \A x \in Callbacks : WF_vars(Trampoline(x))

-----------------------------------------------------------------------------
(* The types of the variables: no reference count goes below zero.               *)
TypeOK ==
    /\ wrapper \in {"new", "creating", "alive", "gone", "failed"}
    /\ closed \in BOOLEAN /\ held \in BOOLEAN
    /\ channel \in {"none", "open", "closed", "stopped"}
    /\ registry \subseteq Callbacks
    /\ refs \in [Callbacks -> Nat]
    /\ blocks \in [Callbacks -> 0..2]
    /\ op \in [Ops -> {"new", "given", "accepted", "started", "complete"}]
    /\ before \in [Ops -> SUBSET Ops]
    /\ parts \in [Ops -> Nat]
    /\ due \in [Callbacks -> [parts : Nat, last : BOOLEAN]]
    /\ calling \in [Callbacks -> {"none", "part", "last"}]
    /\ answered \subseteq Callbacks
    /\ call \in [Clients -> [at : {"none", "submit", "stop", "close", "closed"},
                            o : Ops \cup {NoOp}]]

(* A callback is registered, and referenced, from before libdispatch knows of it  *)
(* until its last call is over, and no longer, whatever is submitted or closed    *)
(* meanwhile: no trampoline finds its number without callback.  The wrapper has a *)
(* reference of its own on the cleanup handler, and a failed constructor none.    *)
RegistryTrue ==
    /\ TypeOK
    /\ \A o \in Ops : o \in registry <=> op[o] # "new" /\ o \notin answered
    /\ \A x \in Callbacks :
        /\ due[x] # NoneDue \/ calling[x] # "none" => x \in registry
        /\ refs[x] = 2 * One(x \in registry) + One(x = Cleanup /\ held)
    /\ wrapper = "failed" => registry = {}

(* libdispatch has been given the block of x and has not called it for the last   *)
(* time.                                                                          *)
MayCall(x) ==
    IF x = Cleanup THEN x \in registry /\ wrapper \in {"alive", "gone"}
    ELSE op[x] \notin {"new", "given"} /\ x \notin answered

(* No block that libdispatch may still call is freed, and a channel that could    *)
(* not be created leaves none behind.                                             *)
BlockRefs ==
    \A x \in Callbacks :
        /\ MayCall(x) => blocks[x] > 0
        /\ wrapper = "failed" => blocks[x] = 0

(* Whoever submits an operation, and gets past the test of the flag, has its      *)
(* callback called for the last time in the end, also when the channel is closed  *)
(* meanwhile.                                                                     *)
Answered == \A o \in Ops : op[o] = "given" ~> o \in answered

(* When the channel is closed or dropped, its cleanup handler is called and all   *)
(* that is registered for it is given back.                                       *)
ClosedDrains == closed \/ wrapper = "gone" ~> registry = {}

-----------------------------------------------------------------------------
(* A claim that the code does not keep: "Block is retained by GCD, will be        *)
(* released when done".  Nobody gives back the reference a block is made with.    *)
BlocksReleased == \A o \in Ops \cap answered : blocks[o] = 0
=============================================================================
