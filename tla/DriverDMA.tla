------------------------------ MODULE DriverDMA ------------------------------
(***************************************************************************)
(* Block transfers through the driver's DMA (linux64/driver), from the     *)
(* call of the MMD (source/host/mmd) to the event or the idle status that  *)
(* tells the host it is over.  Five parties share the driver's state       *)
(* without a lock:                                                         *)
(*                                                                         *)
(*   the host          one thread in the MMD, now and then in a system     *)
(*                     call: starts a transfer, polls or is signalled,     *)
(*                     reprograms a region, stops the DMA, closes          *)
(*   the board         runs the descriptor tables it is given in order,    *)
(*                     writes a flag to host memory, raises an interrupt   *)
(*   the interrupt     aclpci_irq: on a set flag, queues the work item     *)
(*   the work queue    aclpci_dma_update: pins, sends the next piece, or   *)
(*                     finishes; with a host channel open it also polls    *)
(*   signals           reach the host before its next step in user mode    *)
(*                                                                         *)
(* A step is a stretch of one party's code between two accesses to state   *)
(* another party uses.  One transfer is asked for at a time, as the        *)
(* driver's assertion has it.  The two directions have tables of their own *)
(* that are used alike; the transfers here go to the board, the direction  *)
(* in which a host channel's page table is sent too.  Pinning succeeds and *)
(* the process does not die without stopping the DMA.                      *)
(***************************************************************************)
EXTENDS DMAWalk, Sequences

CONSTANTS
  Transfers,     \* [off, len]: user address and length of a transfer, in units
  Modes,         \* "blocking": e = NULL, the host polls; "event": it is told
  Parts,         \* the regions aclpci_pr can reprogram
  PrMayFail,     \* may the controller be found in a bad state?
  Channels,      \* does the host open a host channel?
  MaxTables      \* bound: the board is never this many tables behind

ASSUME TransferAssumption ==
  /\ \A x \in Transfers : x.off \in Nat /\ x.len \in Nat \ {0}
  /\ Modes \subseteq {"blocking", "event"}
  /\ PrMayFail \in BOOLEAN
  /\ Channels \in BOOLEAN
  /\ MaxTables \in Nat \ {0}

VARIABLES
  \* the MMD: where the host is, what it asked for, m_event # NULL, and
  \* whether event_update_fn has been called for what it waits for
  host, ask, event, told,
  signals,       \* DMA signals sent and not yet delivered
  dma,           \* struct aclpci_dma
  pins,          \* how often each page is pinned
  flag,          \* header.flags[lastPtr] of the table in host memory
  \* the board: tables it has still to run, LAST_PTR, units of the current
  \* transfer it has copied (a history variable), an interrupt not yet taken
  engine, lastPtr, copied, msi,
  irq,           \* where the interrupt handler is
  work, wq,      \* is the work item queued; where the work queue's thread is
  \* the host channel: open; loop_counter > 0; *user_thread_sync
  chan, armed, sync,
  prInProgress, frozen, prPart

mmdVars   == <<host, ask, event, told>>
boardVars == <<engine, lastPtr, copied>>
chanVars  == <<chan, armed, sync>>
prVars    == <<prInProgress, frozen, prPart>>
vars == <<mmdVars, signals, dma, pins, flag, boardVars, msi, irq, work, wq,
          chanVars, prVars>>

NoTransfer == [off |-> 0, len |-> 0]
Remaining == dma.len - dma.sent
HostAddr  == dma.off + dma.sent

\* The pages of the user's memory that transfers touch
Pages == UNION {PageOf(x.off) .. PageOf(x.off + x.len - 1) : x \in Transfers}

\* unlock_dma_buffer, when the buffer's ptr is not NULL; lock_dma_buffer
Unpin(counts, b) ==
  [p \in Pages |-> IF b.ptr /\ p \in PagesOf(b) THEN counts[p] - 1 ELSE counts[p]]
Pin(counts, b) ==
  [p \in Pages |-> IF p \in PagesOf(b) THEN counts[p] + 1 ELSE counts[p]]

\* unlock_all_dma.  The buffers' other fields stay as they are.
Dropped(b) == [b EXCEPT !.ptr = FALSE]
UnpinAll == Unpin(Unpin(Unpin(pins, dma.active), dma.prePinned), dma.done)
AllDropped == [dma EXCEPT !.active = Dropped(@), !.prePinned = Dropped(@),
                          !.done = Dropped(@), !.lastId = Reset]

Init ==
  /\ host = "off" /\ ask = NoTransfer /\ event = FALSE /\ told = FALSE
  /\ signals = 0
  /\ dma = [idle |-> TRUE, off |-> 0, len |-> 0, sent |-> 0, lastId |-> Reset,
            pageLast |-> TableSize - 1, active |-> NoBuffer,
            prePinned |-> NoBuffer, done |-> NoBuffer]
  /\ pins = [p \in Pages |-> 0]
  /\ flag = FALSE
  /\ engine = <<>> /\ lastPtr \in Ids \cup {Reset} /\ copied = 0 /\ msi = FALSE
  /\ irq = "idle" /\ work = FALSE /\ wq = "idle"
  /\ chan = FALSE /\ armed = FALSE /\ sync = FALSE
  /\ prInProgress = FALSE /\ frozen = [p \in Parts |-> FALSE] /\ prPart \in Parts

-----------------------------------------------------------------------------
(* The host in the MMD.  In user mode it handles pending signals first.    *)

UserMode == signals = 0

\* ACL_PCIE_DMA::read_write sets m_event before its system call.
Request(x, mode) ==
  /\ host = "ready" /\ UserMode
  /\ host' = "calling" /\ ask' = x /\ event' = (mode = "event") /\ told' = FALSE
  /\ UNCHANGED <<signals, dma, pins, flag, boardVars, msi, irq, work, wq, chanVars, prVars>>

\* The driver's read_write.  The table's flag is not cleared here; tables of
\* an earlier transfer still with the board no longer count.
CallDriver ==
  /\ host = "calling" /\ UserMode
  /\ host' = IF event \/ told THEN "waiting" ELSE "polling"
  /\ dma' = [dma EXCEPT !.off = ask.off, !.len = ask.len, !.sent = 0, !.idle = FALSE,
                        !.pageLast = TableSize - 1, !.lastId = lastPtr]
  /\ work' = TRUE
  /\ copied' = 0
  /\ engine' = [n \in DOMAIN engine |-> [engine[n] EXCEPT !.current = FALSE]]
  /\ UNCHANGED <<ask, event, told, signals, pins, flag, lastPtr, msi, irq, wq, chanVars, prVars>>

\* stall_until_idle, and the host that waits for its event
ReturnBlocking ==
  /\ host = "polling" /\ dma.idle
  /\ host' = "ready" /\ ask' = NoTransfer
  /\ UNCHANGED <<event, told, signals, dma, pins, flag, boardVars, msi, irq, work, wq, chanVars, prVars>>

ReturnEvent ==
  /\ host = "waiting" /\ told /\ UserMode
  /\ host' = "ready" /\ ask' = NoTransfer /\ told' = FALSE
  /\ UNCHANGED <<event, signals, dma, pins, flag, boardVars, msi, irq, work, wq, chanVars, prVars>>

\* pcie_linux_signal_handler and ACL_PCIE_DMA::service_interrupt: m_event is
\* reset before event_update_fn is called.
HandleSignal ==
  /\ signals > 0 /\ host \in {"off", "ready", "calling", "polling", "waiting"}
  /\ signals' = signals - 1
  /\ event' = FALSE /\ told' = (told \/ event)
  /\ UNCHANGED <<host, ask, dma, pins, flag, boardVars, msi, irq, work, wq, chanVars, prVars>>

\* launch_sync_thread, then aclpci_dma_hostch_create.  Its poll_wait returns
\* when the board has run the page table; the flag it saw stays set.
OpenChannel ==
  /\ Channels /\ host = "ready" /\ UserMode /\ ~chan /\ engine = <<>>
  /\ chan' = TRUE /\ armed' = TRUE /\ sync' = FALSE
  /\ lastPtr' = StartId(lastPtr) /\ dma' = [dma EXCEPT !.lastId = StartId(lastPtr)]
  /\ flag' = TRUE
  /\ work' = (work \/ dma.idle)
  /\ UNCHANGED <<mmdVars, signals, pins, engine, copied, msi, irq, wq, prVars>>

\* sync_thread and aclpci_dma_hostch_thread_sync, when data are acknowledged
SyncChannel ==
  /\ host = "ready" /\ UserMode /\ chan /\ ~sync /\ dma.idle
  /\ armed' = TRUE /\ sync' = TRUE /\ work' = TRUE
  /\ UNCHANGED <<mmdVars, signals, dma, pins, flag, boardVars, msi, irq, wq, chan, prVars>>

\* aclpci_pr of region p, up to its first early return, or its second, or
\* until the bitstream is being sent
PrFrozen(p) ==
  /\ host = "ready" /\ UserMode /\ frozen[p]
  /\ prInProgress' = TRUE
  /\ UNCHANGED <<mmdVars, signals, dma, pins, flag, boardVars, msi, irq, work, wq, chanVars,
                 frozen, prPart>>

PrBadController(p) ==
  /\ PrMayFail /\ host = "ready" /\ UserMode /\ ~frozen[p]
  /\ prInProgress' = TRUE /\ frozen' = [frozen EXCEPT ![p] = TRUE]
  /\ UNCHANGED <<mmdVars, signals, dma, pins, flag, boardVars, msi, irq, work, wq, chanVars,
                 prPart>>

PrStart(p) ==
  /\ host = "ready" /\ UserMode /\ ~frozen[p]
  /\ prInProgress' = TRUE /\ frozen' = [frozen EXCEPT ![p] = TRUE] /\ prPart' = p
  /\ host' = "pr"
  /\ UNCHANGED <<ask, event, told, signals, dma, pins, flag, boardVars, msi, irq, work, wq, chanVars>>

PrFinish ==
  /\ host = "pr"
  /\ frozen' = [frozen EXCEPT ![prPart] = FALSE] /\ prInProgress' = FALSE
  /\ host' = "ready"
  /\ UNCHANGED <<ask, event, told, signals, dma, pins, flag, boardVars, msi, irq, work, wq, chanVars,
                 prPart>>

-----------------------------------------------------------------------------
(* Stopping: the device object is deleted, by aocl_mmd_close or because of *)
(* ctrl-C; aclpci_dma_stop, then aclpci_close and a later aclpci_open.     *)

DmaStop ==
  /\ host \in {"ready", "calling", "polling", "waiting"} /\ UserMode
  /\ host' = "flush" /\ ask' = NoTransfer /\ event' = FALSE /\ told' = FALSE
  /\ chan' = FALSE
  /\ dma' = [dma EXCEPT !.idle = TRUE]
  /\ UNCHANGED <<signals, pins, flag, boardVars, msi, irq, work, wq, armed, sync, prVars>>

\* flush_workqueue
StopFlushed ==
  /\ host = "flush" /\ ~work /\ wq = "idle"
  /\ host' = "drain"
  /\ UNCHANGED <<ask, event, told, signals, dma, pins, flag, boardVars, msi, irq, work, wq, chanVars, prVars>>

\* Mutant: the flush alone is trusted.
DrainedByFlush == wq = "idle"
Drained == dma.lastId = Reset \/ flag \/ engine = <<>>

\* The poll of the last flag, which gives up after a second; a board that
\* works has run its tables by then.
StopDrained ==
  /\ host = "drain" /\ Drained
  /\ flag' = FALSE
  /\ dma' = AllDropped /\ pins' = UnpinAll
  /\ host' = "closing"
  /\ UNCHANGED <<ask, event, told, signals, boardVars, msi, irq, work, wq, chanVars, prVars>>

\* aclpci_dma_finish and free_irq
Close ==
  /\ host = "closing" /\ ~work /\ wq = "idle" /\ irq = "idle"
  /\ dma' = [AllDropped EXCEPT !.idle = TRUE] /\ pins' = UnpinAll
  /\ msi' = FALSE
  /\ host' = "off"
  /\ UNCHANGED <<ask, event, told, signals, flag, boardVars, irq, work, wq, chanVars, prVars>>

\* aclpci_dma_init
Open ==
  /\ host = "off" /\ UserMode
  /\ host' = "ready"
  /\ dma' = [dma EXCEPT !.active = NoBuffer, !.idle = TRUE]
  /\ UNCHANGED <<ask, event, told, signals, pins, flag, boardVars, msi, irq, work, wq, chanVars, prVars>>

-----------------------------------------------------------------------------
(* The board.                                                              *)

\* The next table has been run.
EngineDone ==
  /\ engine # <<>>
  /\ copied' = IF Head(engine).current THEN copied + Head(engine).len ELSE copied
  /\ flag' = (flag \/ Head(engine).last = lastPtr)
  /\ engine' = Tail(engine)
  /\ msi' = TRUE
  /\ UNCHANGED <<mmdVars, signals, dma, pins, lastPtr, irq, work, wq, chanVars, prVars>>

\* A kernel raises the same interrupt.
KernelDone ==
  /\ host # "off" /\ ~msi
  /\ msi' = TRUE
  /\ UNCHANGED <<mmdVars, signals, dma, pins, flag, boardVars, irq, work, wq, chanVars, prVars>>

-----------------------------------------------------------------------------
(* The interrupt handler.                                                  *)

\* get_interrupt_type.  Mutant: any interrupt is one of the DMA.
AnyInterrupt == dma.lastId # Reset
\* Mutant: off by one in the test for a valid id.
LastIdSkipped == dma.lastId < TableSize - 1 /\ flag
DmaUpdate == dma.lastId # Reset /\ flag

IrqEnter ==
  /\ msi /\ irq = "idle" /\ host # "off"
  /\ msi' = FALSE
  /\ irq' = IF ~prInProgress /\ DmaUpdate THEN "service" ELSE "idle"
  /\ UNCHANGED <<mmdVars, signals, dma, pins, flag, boardVars, work, wq, chanVars, prVars>>

\* aclpci_dma_service_interrupt: first the test of m_idle, ...
IrqService ==
  /\ irq = "service"
  /\ irq' = IF dma.idle THEN "idle" ELSE "queue"
  /\ UNCHANGED <<mmdVars, signals, dma, pins, flag, boardVars, msi, work, wq, chanVars, prVars>>

\* ... then the header is cleared and the work queued.
IrqQueue ==
  /\ irq = "queue"
  /\ flag' = FALSE /\ work' = TRUE
  /\ irq' = "idle"
  /\ UNCHANGED <<mmdVars, signals, dma, pins, boardVars, msi, wq, chanVars, prVars>>

-----------------------------------------------------------------------------
(* The work queue: aclpci_dma_update.                                      *)

WqTake ==
  /\ work /\ wq = "idle"
  /\ work' = FALSE /\ wq' = "start"
  /\ UNCHANGED <<mmdVars, signals, dma, pins, flag, boardVars, msi, irq, chanVars, prVars>>

\* A channel's pointers are looked at only while no transfer is on: they have
\* moved, and loop_counter starts anew, or it comes down and may reach zero.
WqPollChannel ==
  /\ wq = "start" /\ dma.idle /\ chan
  /\ armed' \in BOOLEAN
  /\ wq' = "polled"
  /\ UNCHANGED <<mmdVars, signals, dma, pins, flag, boardVars, msi, irq, work, chan, sync, prVars>>

\* m_idle is read again.
WqPollAgain ==
  /\ wq = "polled" /\ dma.idle
  /\ work' = (work \/ (chan /\ armed))
  /\ sync' = (sync /\ (chan => armed))
  /\ wq' = "idle"
  /\ UNCHANGED <<mmdVars, signals, dma, pins, flag, boardVars, msi, irq, chan, armed, prVars>>

WqNothing ==
  /\ wq = "start" /\ dma.idle /\ ~chan
  /\ wq' = "idle"
  /\ UNCHANGED <<mmdVars, signals, dma, pins, flag, boardVars, msi, irq, work, chanVars, prVars>>

WqTransfer ==
  /\ wq \in {"start", "polled"} /\ ~dma.idle
  /\ wq' = "update"
  /\ UNCHANGED <<mmdVars, signals, dma, pins, flag, boardVars, msi, irq, work, chanVars, prVars>>

\* Mutant: the buffer the last table was sent from is forgotten.
FinishedForgets == Unpin(pins, dma.done)
Finished == Unpin(Unpin(pins, dma.active), dma.done)

\* Nothing remains: idle is what a polling host sees, the signal comes after.
WqFinish ==
  /\ wq = "update" /\ Remaining = 0
  /\ dma' = [dma EXCEPT !.lastId = Reset, !.pageLast = TableSize - 1, !.idle = TRUE,
                        !.active = Dropped(@), !.done = Dropped(@)]
  /\ pins' = Finished
  /\ wq' = "signal"
  /\ UNCHANGED <<mmdVars, signals, flag, boardVars, msi, irq, work, chanVars, prVars>>

WqSignal ==
  /\ wq = "signal"
  /\ signals' = signals + 1
  /\ work' = (work \/ (chan /\ armed))
  /\ wq' = "idle"
  /\ UNCHANGED <<mmdVars, dma, pins, flag, boardVars, msi, irq, chanVars, prVars>>

\* The buffer to send from: the active one while it has pages left, else the
\* one pinned ahead, else one pinned now.  The old one becomes m_done_mem.
WqBuffer ==
  /\ wq = "update" /\ Remaining > 0
  /\ wq' = "send"
  /\ IF dma.active.ptr /\ dma.active.rem # 0
       THEN UNCHANGED <<dma, pins>>
       ELSE LET locked == Locked(HostAddr, LockSize(Remaining, dma.pageLast))
                next   == IF dma.prePinned.ptr THEN dma.prePinned ELSE locked
            IN  /\ pins' = IF dma.prePinned.ptr THEN pins ELSE Pin(pins, locked)
                /\ dma' = [dma EXCEPT
                     !.done = IF dma.active.rem = 0 THEN dma.active ELSE @,
                     !.active = Begun(next), !.prePinned = Dropped(@)]
  /\ UNCHANGED <<mmdVars, signals, flag, boardVars, msi, irq, work, chanVars, prVars>>

\* set_read_desc, get_start_id and send_dma_desc for n units from the active
\* buffer in descriptors up to id last
Send(n, last) ==
  /\ Len(engine) < MaxTables
  /\ engine' = Append(engine, [host |-> dma.active.next * PageUnits + dma.active.off,
                               dev |-> dma.sent, len |-> n, last |-> last, current |-> TRUE])
  /\ lastPtr' = last
  /\ flag' = FALSE

\* non_aligned_page_handler, up to where it unlocks m_done_mem
WqSendPiece ==
  LET size == FirstSize(dma.active, Remaining)
      n    == Piece(size)
      id   == StartId(dma.lastId)
  IN  /\ wq = "send" /\ size \notin {0, PageUnits}
      /\ Send(n, id)
      /\ dma' = [dma EXCEPT !.lastId = id, !.sent = @ + n,
                            !.active = AfterPiece(@, n, size)]
      /\ wq' = "sentPiece"
      /\ UNCHANGED <<mmdVars, signals, pins, copied, msi, irq, work, chanVars, prVars>>

\* The page size branch.  The code returns without doing anything when only a
\* partly used page is left; WqSendPiece has taken that one.
WqSendPages ==
  LET start == StartId(dma.lastId)
      k     == WholePages(dma.active, start)
      last  == start + k - 1
  IN  /\ wq = "send" /\ FirstSize(dma.active, Remaining) \in {0, PageUnits}
      /\ dma.active.rem > dma.active.partLast
      /\ Send(k * PageUnits, last)
      /\ dma' = [dma EXCEPT !.lastId = last, !.pageLast = last,
                            !.sent = @ + k * PageUnits, !.active = AfterPages(@, k)]
      /\ wq' = "sentPages"
      /\ UNCHANGED <<mmdVars, signals, pins, copied, msi, irq, work, chanVars, prVars>>

WqUnpinDone ==
  /\ wq \in {"sentPiece", "sentPages"}
  /\ pins' = Unpin(pins, dma.done)
  /\ dma' = [dma EXCEPT !.done = Dropped(@)]
  /\ wq' = IF wq = "sentPages" /\ Remaining > 0 /\ dma.active.rem = 0 THEN "prePin" ELSE "idle"
  /\ UNCHANGED <<mmdVars, signals, flag, boardVars, msi, irq, work, chanVars, prVars>>

WqPrePin ==
  LET locked == Locked(HostAddr, LockSize(Remaining, dma.pageLast))
  IN  /\ wq = "prePin"
      /\ pins' = Pin(pins, locked)
      /\ dma' = [dma EXCEPT !.prePinned = locked]
      /\ wq' = "idle"
      /\ UNCHANGED <<mmdVars, signals, flag, boardVars, msi, irq, work, chanVars, prVars>>

-----------------------------------------------------------------------------

HostReturns == CallDriver \/ ReturnBlocking \/ ReturnEvent \/ HandleSignal

Interrupt == IrqEnter \/ IrqService \/ IrqQueue

WorkQueue ==
  \/ WqTake \/ WqPollChannel \/ WqPollAgain \/ WqNothing \/ WqTransfer
  \/ WqFinish \/ WqSignal \/ WqBuffer \/ WqSendPiece \/ WqSendPages
  \/ WqUnpinDone \/ WqPrePin

Next ==
  \/ \E x \in Transfers, mode \in Modes : Request(x, mode)
  \/ HostReturns
  \/ OpenChannel \/ SyncChannel
  \/ \E p \in Parts : PrFrozen(p) \/ PrBadController(p) \/ PrStart(p)
  \/ PrFinish
  \/ DmaStop \/ StopFlushed \/ StopDrained \/ Close \/ Open
  \/ EngineDone \/ KernelDone
  \/ Interrupt
  \/ WorkQueue

Spec == Init /\ [][Next]_vars

\* The board runs the tables it has, interrupts are delivered, the work queue
\* is a kernel thread, and a host that polls or has a signal pending is
\* scheduled.
Fairness ==
  WF_vars(EngineDone) /\ WF_vars(Interrupt) /\ WF_vars(WorkQueue) /\ WF_vars(HostReturns)

FairSpec == Spec /\ Fairness

-----------------------------------------------------------------------------
(* Properties                                                              *)

Busy == host \in {"calling", "polling", "waiting"}

\* Buffers are inside the user's memory, pin counts never go below zero, ids
\* are those of the table.
TypeOK ==
  /\ host \in {"off", "ready", "calling", "polling", "waiting", "pr",
               "flush", "drain", "closing"}
  /\ ask \in Transfers \cup {NoTransfer}
  /\ event \in BOOLEAN /\ told \in BOOLEAN /\ signals \in Nat
  /\ dma.idle \in BOOLEAN /\ dma.lastId \in Ids \cup {Reset} /\ dma.pageLast \in Ids
  /\ dma.sent \in 0 .. dma.len
  /\ \A b \in {dma.active, dma.prePinned, dma.done} :
       b.ptr => b.rem \in 0 .. b.pages /\ PagesOf(b) \subseteq Pages
  /\ pins \in [Pages -> Nat]
  /\ \A n \in DOMAIN engine : engine[n].len \in 1 .. dma.len /\ engine[n].last \in Ids
  /\ lastPtr \in Ids \cup {Reset} /\ copied \in Nat
  /\ flag \in BOOLEAN /\ msi \in BOOLEAN /\ work \in BOOLEAN
  /\ irq \in {"idle", "service", "queue"}
  /\ wq \in {"idle", "start", "polled", "update", "send", "sentPiece", "sentPages",
             "prePin", "signal"}
  /\ chan \in BOOLEAN /\ armed \in BOOLEAN /\ sync \in BOOLEAN
  /\ prInProgress \in BOOLEAN /\ frozen \in [Parts -> BOOLEAN] /\ prPart \in Parts

\* The board never reads a page that is not pinned (unlock_dma_buffer gives
\* it back to the kernel): not while the work queue moves from one pinned
\* stretch to the next, and not while the host stops the DMA.
PinnedWhileBusy ==
  \A n \in DOMAIN engine : \A u \in 1 .. engine[n].len :
    pins[PageOf(engine[n].host + u - 1)] > 0

\* Pieces, whole pages and pre-pinned stretches together send every unit
\* once, from its own place in the user's memory, and the next table only
\* when the one before has been run: descriptor tables are overwritten in
\* place.
CopiesInOrder ==
  /\ Len(engine) <= 1
  /\ \A n \in DOMAIN engine :
       engine[n].current => engine[n].dev = copied /\ engine[n].host = dma.off + copied

\* Whatever the order in which transfers end, are broken off and the device
\* is closed, an idle driver has nothing pinned.
NothingLeftPinned ==
  dma.idle /\ host \notin {"flush", "drain"} => \A p \in Pages : pins[p] = 0

\* The operation status handler is called "when the operation has completed
\* successfully" (aocl_mmd.h): the event of a transfer is reported when all of
\* it has been copied, and no late signal of an earlier one is taken for it.
\* The code breaks it when polled transfers come between those with an event,
\* as they do in the MMD's copy_block.
EventMeansDone == told => host = "waiting" /\ copied = ask.len

\* A host that polls ACLPCI_CMD_GET_DMA_IDLE_STATUS is answered idle only when
\* all of its transfer has been copied: the work item never runs out of things
\* to send before the board has sent them.  The code breaks it when the item
\* also polls a host channel.
IdleMeansCopied == host \in {"polling", "waiting"} /\ dma.idle => copied = ask.len

\* All of the above machinery is a transfer that moves in order and returns
\* when it is complete.
Transfer == INSTANCE HostTransfer WITH
  busy <- Busy, length <- ask.len,
  moved <- IF host \in {"polling", "waiting"} THEN copied ELSE 0
ImplementsTransfer == Transfer!Spec

\* No completion is lost between the board, the flag, the handler and the
\* work queue, whatever else interrupts: every transfer returns or is
\* broken off by the host.
TransfersReturn == Busy ~> ~Busy
=============================================================================
