----------------------------- MODULE HostChannel -----------------------------
(***************************************************************************)
(* The two host channels: push (ACL_HOST_CHANNEL_0, host to device) and    *)
(* pull (ACL_HOST_CHANNEL_1, device to host).  A channel is a ring in user *)
(* memory with a word for its front and a word for its end.  The MMD and   *)
(* the board each move one of the two; the board writes its own word in    *)
(* host memory, but learns of the host's only from the driver: a work item *)
(* looks at both words, copies what has changed to a register, and queues  *)
(* itself again.  It gives up after a while without changes, and clears a  *)
(* word (m_sync_thread) by  which the MMD knows to start it again.         *)
(*                                                                         *)
(* Four parties: the host's thread (MMD and system calls), the driver's    *)
(* work item, a block transfer that keeps the work item busy (DriverDMA    *)
(* has its detail), and the board.  Lengths are in units of 32 bytes.      *)
(***************************************************************************)
EXTENDS Integers, Sequences, FiniteSetsExt

CONSTANTS
  Asked,        \* Asked[c]: the depths a program may ask for, in units
  Chunks,       \* how many units a program fills or reads at a time
  PageUnits,    \* units in a page
  MaxUnits,     \* HOSTCH_MAX_BUF_SIZE
  LoopMax,      \* HOSTCH_LOOP_COUNTER
  MaxOpens,     \* bound: channels a program opens between open and close of the device
  TransferOpens \* bound: block transfers start until this many channels were opened

Channels == {"push", "pull"}
Other(c) == CHOOSE d \in Channels : d # c

PowersOfTwo == {2^i : i \in 0 .. MaxUnits}

ASSUME ChannelAssumption ==
  /\ Asked \in [Channels -> SUBSET Nat]
  /\ Chunks \subseteq Nat \ {0}
  /\ PageUnits \in Nat \ {0} /\ MaxUnits \in Nat \ {0} /\ LoopMax \in Nat \ {0}
  /\ {PageUnits, MaxUnits} \subseteq PowersOfTwo /\ PageUnits <= MaxUnits
  /\ MaxOpens \in Nat /\ TransferOpens \in Nat

VARIABLES
  host,         \* where the program is: in what call, for which channel
  mmd,          \* mmd[c]: valid, buf, size, local (end or front), offer
  mmdSync,      \* m_sync_thread_valid
  ring,         \* ring[b]: what is in user memory: size, front, end, cells
  drv,          \* drv[c]: valid, buf, seen (the pointer last passed on)
  drvSync, sync,   \* thread_sync_valid; *user_thread_sync
  loop, work, wq,  \* loop_counter; work item queued; where the thread is
  xfer,         \* the block transfer; m_idle is xfer = "none"
  pinned,       \* buffers whose pages the driver has pinned
  board,        \* board[c]: logic, control, buf, hostPtr, own
  opens,        \* channels opened since the device was
  put, got      \* next unit each channel is sent, and has received (history)

hostVars == <<host, mmd, mmdSync, opens>>
drvVars  == <<drv, drvSync, sync, loop>>
wqVars   == <<work, wq>>
dataVars == <<put, got>>
vars == <<hostVars, ring, drvVars, wqVars, xfer, pinned, board, dataVars>>

\* Two buffers for a channel are enough: the program has one, and the driver
\* may have kept an earlier one.
Buffers == Channels \X {1, 2}
NoBuf == <<"none", 0>>
User == <<"user">>
Idle == xfer = "none"
AnyOpen == drv["push"].valid \/ drv["pull"].valid

-----------------------------------------------------------------------------
(* The arithmetic of the rings                                             *)

Blank == MaxUnits
Number(n, size) == n % size

\* create_hostchannel: the depth rounded up to a power of two, but at least a
\* page and at most the largest buffer.  (The code's x & (MAX - PAGE) of a power
\* of two below MAX is x itself, or nothing if it is less than a page; a depth
\* of nothing becomes a page.)
ChannelDepth(n) == Min({p \in PowersOfTwo : p \in PageUnits .. MaxUnits /\ p >= n} \cup {MaxUnits})

\* Mutant: the ring may be filled.
PushAvailFull(front, end, size) == 1 + ((front - end - 1 + size) % size)

\* push_buf_avail: one unit stays free, so that equal pointers mean empty
PushAvail(front, end, size) ==
  IF end > front THEN size - end + front - 1
  ELSE IF end < front THEN front - end - 1
  ELSE size - 1

\* m_pull_queue_available
PullAvail(front, end, size) ==
  IF end >= front THEN end - front ELSE size - front + end

Avail(c) ==
  LET r == ring[mmd[c].buf]
  IN  IF c = "push" THEN PushAvail(r.front, r.end, mmd[c].size)
      ELSE PullAvail(r.front, r.end, mmd[c].size)

\* cont_push, cont_pull: what is available before the ring's end
Contiguous(c, n) ==
  IF mmd[c].size > mmd[c].local + n THEN n ELSE mmd[c].size - mmd[c].local

\* Mutant: off by one at the end of the ring.
MovedPast(c, n) ==
  IF mmd[c].local + n > mmd[c].size THEN 0 ELSE mmd[c].local + n

\* m_push_queue_local_end_p, m_pull_queue_local_front_p after n more
Moved(c, n) ==
  IF mmd[c].local + n >= mmd[c].size THEN 0 ELSE mmd[c].local + n

\* The units read from cells first .. first+n-1, if they are the next n
Follow(c, cells, first, n, size) ==
  IF \A i \in 0 .. n - 1 : cells[first + i] = Number(got[c] + i, size)
  THEN Number(got[c] + n, size) ELSE Blank

NoChannel == [valid |-> FALSE, buf |-> NoBuf, size |-> 0, local |-> 0, offer |-> 0]
NoRing == [size |-> 0, front |-> 0, end |-> 0, cells |-> <<>>]
ShutOff == [logic |-> FALSE, control |-> FALSE, buf |-> NoBuf, hostPtr |-> 0, own |-> 0]

Init ==
  /\ host = User /\ mmdSync = FALSE /\ opens = 0
  /\ mmd = [c \in Channels |-> NoChannel]
  /\ ring = [b \in Buffers |-> NoRing]
  /\ drv = [c \in Channels |-> [valid |-> FALSE, buf |-> NoBuf, seen |-> 0]]
  /\ drvSync = FALSE /\ sync = FALSE /\ loop = 0
  /\ work = FALSE /\ wq = "idle" /\ xfer = "none"
  /\ pinned = {}
  /\ board = [c \in Channels |-> ShutOff]
  /\ put = [c \in Channels |-> 0] /\ got = [c \in Channels |-> 0]

-----------------------------------------------------------------------------
(* Opening a channel                                                       *)

\* A buffer nobody refers to any more.  The allocator is taken to return
\* memory that the driver has not pinned.
Unused(c) == CHOOSE b \in {c} \X {1, 2} : b \notin pinned

\* aclpci_dma_hostch_thread_sync of a new word
NewSyncWord == drvSync' = TRUE /\ sync' = FALSE /\ loop' = LoopMax

\* launch_sync_thread has the driver pin the word unless it is there already.
LaunchSyncThread ==
  /\ mmdSync' = TRUE
  /\ IF mmdSync THEN UNCHANGED <<drvSync, sync, loop>> ELSE NewSyncWord

\* create_hostchannel up to the driver's part.  MMD and driver refuse no depth;
\* allocation succeeds.
CreateChannel(c, asked) ==
  /\ host = User /\ ~mmd[c].valid /\ opens < MaxOpens /\ opens' = opens + 1
  /\ LET size == ChannelDepth(asked)
         b    == Unused(c)
     IN  /\ mmd' = [mmd EXCEPT ![c] = [NoChannel EXCEPT !.buf = b, !.size = size]]
         /\ ring' = [ring EXCEPT ![b] = [size |-> size, front |-> 0, end |-> 0,
                                         cells |-> [i \in 0 .. size - 1 |-> Blank]]]
  /\ host' = <<"create", c>>
  /\ LaunchSyncThread
  /\ UNCHANGED <<drv, wqVars, xfer, pinned, board, dataVars>>

\* The driver pins the buffer and its pointers, and programs the board with
\* the address, the size and pointers of zero.
BufferLocked(c) == pinned \cup {mmd[c].buf}
Started(c) ==
  [logic |-> TRUE, control |-> TRUE, buf |-> mmd[c].buf, hostPtr |-> 0, own |-> 0]

\* aclpci_dma_hostch_create.  When the driver takes the channel for open it
\* does nothing, and the MMD does not look at the result.  What was last passed
\* on (seen) is not reset.
DriverCreate(chan) ==
  /\ host = <<"create", chan>> /\ host' = User
  /\ mmd' = [mmd EXCEPT ![chan].valid = TRUE]
  /\ put' = [put EXCEPT ![chan] = 0] /\ got' = [got EXCEPT ![chan] = 0]
  /\ IF drv[chan].valid
     THEN UNCHANGED <<drv, pinned, board, work>>
     ELSE /\ drv' = [drv EXCEPT ![chan].valid = TRUE, ![chan].buf = mmd[chan].buf]
          /\ pinned' = BufferLocked(chan)
          /\ board' = [board EXCEPT ![chan] = Started(chan)]
          /\ work' = (work \/ (~drv[Other(chan)].valid /\ Idle))
  /\ UNCHANGED <<mmdSync, opens, ring, drvSync, sync, loop, wq, xfer>>

-----------------------------------------------------------------------------
(* Closing a channel                                                       *)

\* aclpci_dma_hostch_destroy(reading): the branch for reading closes pull, and
\* the MMD asks for reading when it closes push.  Each branch switches off the
\* logic of the other channel and the control of its own.
Destroyed(c) == Other(c)

\* Mutant: both registers of the other channel.
ReleasedOther(d) ==
  /\ drv' = [drv EXCEPT ![d].valid = FALSE, ![d].buf = NoBuf]
  /\ pinned' = pinned \ {drv[d].buf}
  /\ board' = [board EXCEPT ![Other(d)].logic = FALSE, ![Other(d)].control = FALSE]
  /\ drvSync' = (drvSync /\ drv[Other(d)].valid)

Released(d) ==
  /\ drv' = [drv EXCEPT ![d].valid = FALSE, ![d].buf = NoBuf]
  /\ pinned' = pinned \ {drv[d].buf}
  /\ board' = [board EXCEPT ![Other(d)].logic = FALSE,
                            ![d] = [ShutOff EXCEPT !.logic = board[d].logic]]
  /\ drvSync' = (drvSync /\ drv[Other(d)].valid)

DestroyChannel(c) ==
  /\ host = User /\ mmd[c].valid
  /\ IF drv[Destroyed(c)].valid
     THEN /\ Released(Destroyed(c))
          /\ host' = IF ~drv[c].valid /\ Idle THEN <<"flush", c>> ELSE <<"free", c>>
     ELSE host' = <<"free", c>> /\ UNCHANGED <<drv, pinned, board, drvSync>>
  /\ UNCHANGED <<mmd, mmdSync, opens, ring, sync, loop, wqVars, xfer, dataVars>>

Flushed(c) ==
  /\ host = <<"flush", c>> /\ ~work /\ wq = "idle"
  /\ host' = <<"free", c>>
  /\ UNCHANGED <<mmd, mmdSync, opens, ring, drvVars, wqVars, xfer, pinned, board, dataVars>>

\* destroy_sync_thread: the word goes with the last of the two channels.
DestroySyncThread(other) == mmdSync' = (mmdSync /\ mmd[other].valid)

\* What is in the ring is no longer of interest; of its two words the driver
\* may still have a mapping.
Emptied(r) == [r EXCEPT !.cells = [i \in DOMAIN r.cells |-> Blank]]

\* The rest of destroy_hostchannel
FreeChannel(chan) ==
  /\ host = <<"free", chan>> /\ host' = User
  /\ ring' = [ring EXCEPT ![mmd[chan].buf] =
                IF mmd[chan].buf \in pinned THEN Emptied(ring[mmd[chan].buf]) ELSE NoRing]
  /\ mmd' = [mmd EXCEPT ![chan] = NoChannel]
  /\ DestroySyncThread(Other(chan))
  /\ put' = [put EXCEPT ![chan] = 0] /\ got' = [got EXCEPT ![chan] = 0]
  /\ UNCHANGED <<opens, drvVars, wqVars, xfer, pinned, board>>

\* aclpci_close: aclpci_dma_finish forgets the pinned buffers before it
\* destroys the channels, so the pages stay pinned for good.  Nothing names
\* them any more, and the model forgets them.  aclpci_open starts afresh.
CloseDevice ==
  /\ host = User /\ \A c \in Channels : ~mmd[c].valid
  /\ Idle /\ ~work /\ wq = "idle"
  /\ drv' = [c \in Channels |-> [drv[c] EXCEPT !.valid = FALSE, !.buf = NoBuf]]
  /\ board' = [c \in Channels |-> ShutOff]
  /\ drvSync' = FALSE
  /\ pinned' = {} /\ ring' = [b \in Buffers |-> NoRing]
  /\ opens' = 0
  /\ UNCHANGED <<host, mmd, mmdSync, sync, loop, wqVars, xfer, dataVars>>

-----------------------------------------------------------------------------
(* Using a channel                                                         *)

\* The n cells from first on with the units from next on
Filled(r, first, n, next) ==
  [r EXCEPT !.cells = [i \in DOMAIN r.cells |->
     IF i \in first .. first + n - 1 THEN Number(next + i - first, r.size) ELSE r.cells[i]]]

\* get_buffer, and the program fills n units of what it was given.  It fills
\* them at once: any later is safer, since the board is busy emptying the ring.
GetPush(n) ==
  LET m == mmd["push"] IN
  /\ host = User /\ m.valid /\ m.offer = 0
  /\ n <= Contiguous("push", Avail("push"))
  /\ mmd' = [mmd EXCEPT !["push"].offer = n]
  /\ ring' = [ring EXCEPT ![m.buf] = Filled(ring[m.buf], m.local, n, put["push"])]
  /\ UNCHANGED <<host, mmdSync, opens, drvVars, wqVars, xfer, pinned, board, dataVars>>

\* get_buffer, and the program will read n units.  It reads them just before
\* it acknowledges: any earlier is safer, since the board may not touch them.
GetPull(n) ==
  /\ host = User /\ mmd["pull"].valid /\ mmd["pull"].offer = 0
  /\ n <= Contiguous("pull", Avail("pull"))
  /\ mmd' = [mmd EXCEPT !["pull"].offer = n]
  /\ UNCHANGED <<host, mmdSync, opens, ring, drvVars, wqVars, xfer, pinned, board, dataVars>>

\* ack_buffer up to sync_thread: both pointers are read again
AckBuffer(c) ==
  LET m == mmd[c]
      n == Min({m.offer, Avail(c)})
  IN  /\ host = User /\ m.valid /\ m.offer > 0
      /\ mmd' = [mmd EXCEPT ![c].offer = 0, ![c].local = Moved(c, n)]
      /\ IF c = "push"
         THEN /\ ring' = [ring EXCEPT ![m.buf].end = Moved(c, n)]
              /\ put' = [put EXCEPT ![c] = Number(@ + n, m.size)]
              /\ UNCHANGED got
         ELSE /\ ring' = [ring EXCEPT ![m.buf].front = Moved(c, n)]
              /\ got' = [got EXCEPT ![c] = Follow(c, ring[m.buf].cells, m.local, n, m.size)]
              /\ UNCHANGED put
      /\ host' = <<"sync">>
      /\ UNCHANGED <<mmdSync, opens, drvVars, wqVars, xfer, pinned, board>>

\* sync_thread, and the driver's aclpci_dma_hostch_thread_sync(NULL).  If the
\* driver has dropped its word meanwhile, it maps a page it does not have.
SyncThread ==
  /\ host = <<"sync">>
  /\ IF ~mmdSync \/ sync THEN host' = User /\ UNCHANGED <<sync, loop, work>>
     ELSE IF ~drvSync THEN host' = <<"crashed">> /\ UNCHANGED <<sync, loop, work>>
     ELSE /\ host' = User
          /\ IF AnyOpen /\ Idle THEN sync' = TRUE /\ loop' = LoopMax /\ work' = TRUE
             ELSE UNCHANGED <<sync, loop, work>>
  /\ UNCHANGED <<mmd, mmdSync, opens, ring, drv, drvSync, wq, xfer, pinned, board, dataVars>>

\* aclpci_dma.c, read_write: the host goes on while the transfer runs
StartTransfer ==
  /\ opens <= TransferOpens /\ host = User /\ Idle
  /\ xfer' = "asked" /\ work' = TRUE
  /\ UNCHANGED <<hostVars, ring, drvVars, wq, pinned, board, dataVars>>

-----------------------------------------------------------------------------
(* The work item: aclpci_dma_update                                        *)

\* The word the host moves: user_rd_end_pointer, user_wr_front_pointer
HostWord(c) ==
  LET r == ring[drv[c].buf] IN IF c = "push" THEN r.end ELSE r.front

\* The thread takes the work item and looks at both words
\* (aclpci_dma_hostch_pull_update, aclpci_dma_hostch_push_update): a changed
\* one is passed on and winds the counter up, each unchanged one counts down.
Looks(c) == drv[c].valid /\ Idle
Changed(c) == Looks(c) /\ drv[c].seen # HostWord(c)
CountedDown ==
  LET after == IF ~Looks("pull") THEN loop
               ELSE IF Changed("pull") THEN LoopMax ELSE Max({0, loop - 1})
  IN  IF ~Looks("push") THEN after
      ELSE IF Changed("push") THEN LoopMax ELSE Max({0, after - 1})

WqLook ==
  /\ work /\ wq = "idle"
  /\ work' = FALSE /\ wq' = "decide"
  /\ loop' = CountedDown
  /\ drv' = [c \in Channels |-> IF Changed(c) THEN [drv[c] EXCEPT !.seen = HostWord(c)]
                                ELSE drv[c]]
  /\ board' = [c \in Channels |-> IF Changed(c) THEN [board[c] EXCEPT !.hostPtr = HostWord(c)]
                                  ELSE board[c]]
  /\ UNCHANGED <<hostVars, ring, drvSync, sync, xfer, pinned, dataVars>>

WqPollAgain ==
  /\ wq = "decide" /\ wq' = "idle"
  /\ AnyOpen /\ Idle /\ drvSync /\ loop > 0
  /\ work' = TRUE
  /\ UNCHANGED <<hostVars, ring, drvVars, xfer, pinned, board, dataVars>>

WqGiveUp ==
  /\ wq = "decide" /\ wq' = "idle"
  /\ Idle /\ drvSync /\ loop = 0
  /\ sync' = FALSE
  /\ UNCHANGED <<hostVars, ring, drv, drvSync, loop, work, xfer, pinned, board, dataVars>>

WqNothing ==
  /\ wq = "decide" /\ wq' = "idle"
  /\ Idle /\ ~(drvSync /\ (AnyOpen \/ loop = 0))
  /\ UNCHANGED <<hostVars, ring, drvVars, work, xfer, pinned, board, dataVars>>

\* Mutant: a transfer's end does not go back to polling.
WqTransferEnds ==
  /\ wq = "decide" /\ wq' = "idle" /\ ~Idle
  /\ xfer' = CASE xfer = "asked" -> "board" [] xfer = "board" -> "board" [] OTHER -> "none"
  /\ UNCHANGED <<hostVars, ring, drvVars, work, pinned, board, dataVars>>

\* The rest of aclpci_dma_update, for a transfer of one table
WqTransfer ==
  /\ wq = "decide" /\ wq' = "idle" /\ ~Idle
  /\ xfer' = CASE xfer = "asked" -> "board" [] xfer = "board" -> "board" [] OTHER -> "none"
  /\ work' = (work \/ (xfer = "copied" /\ AnyOpen /\ drvSync /\ loop > 0))
  /\ UNCHANGED <<hostVars, ring, drvVars, pinned, board, dataVars>>

-----------------------------------------------------------------------------
(* The board                                                               *)

Runs(c) == board[c].logic /\ board[c].control
\* What it does with a buffer the program no longer has is not followed: nobody
\* looks at the pointers of that ring, and they start afresh with the next one.
Served(c) == board[c].buf = mmd[c].buf
NextOwn(c) == (board[c].own + 1) % ring[board[c].buf].size

\* It fetches a unit and reports its front.
BoardFetch ==
  LET b == board["push"]
  IN  /\ Runs("push") /\ Served("push") /\ b.own # b.hostPtr
      /\ board' = [board EXCEPT !["push"].own = NextOwn("push")]
      /\ ring' = [ring EXCEPT ![b.buf].front = NextOwn("push")]
      /\ got' = [got EXCEPT !["push"] =
                   Follow("push", ring[b.buf].cells, b.own, 1, ring[b.buf].size)]
      /\ UNCHANGED <<hostVars, drvVars, wqVars, xfer, pinned, put>>

\* It stores a unit unless that would fill the ring, and reports its end.
BoardStore ==
  LET b == board["pull"]
  IN  /\ Runs("pull") /\ Served("pull") /\ NextOwn("pull") # b.hostPtr
      /\ board' = [board EXCEPT !["pull"].own = NextOwn("pull")]
      /\ ring' = [ring EXCEPT ![b.buf].end = NextOwn("pull"),
                              ![b.buf].cells[b.own] = put["pull"]]
      /\ put' = [put EXCEPT !["pull"] = Number(@ + 1, ring[b.buf].size)]
      /\ UNCHANGED <<hostVars, drvVars, wqVars, xfer, pinned, got>>

\* The table has been copied; its interrupt queues the work item.
EngineDone ==
  /\ xfer = "board" /\ xfer' = "copied" /\ work' = TRUE
  /\ UNCHANGED <<hostVars, ring, drvVars, wq, pinned, board, dataVars>>

-----------------------------------------------------------------------------
Crashed == host = <<"crashed">> /\ UNCHANGED vars

Host ==
  \/ \E c \in Channels : \E n \in Asked[c] : CreateChannel(c, n)
  \/ \E c \in Channels : \/ DriverCreate(c) \/ AckBuffer(c)
                         \/ DestroyChannel(c) \/ Flushed(c) \/ FreeChannel(c)
  \/ CloseDevice
  \/ \E n \in Chunks : GetPush(n) \/ GetPull(n)
  \/ SyncThread \/ StartTransfer

WorkItem ==
  \/ WqLook
  \/ WqPollAgain \/ WqGiveUp \/ WqNothing \/ WqTransfer

Board == BoardFetch \/ BoardStore \/ EngineDone

Next == Host \/ WorkItem \/ Board \/ Crashed

Spec == Init /\ [][Next]_vars

-----------------------------------------------------------------------------
(* Properties                                                              *)

Size(c) == IF mmd[c].valid THEN mmd[c].size ELSE 0

\* Every pointer stays inside its ring, and what the program was given to fill
\* or to read does not run over the end.
TypeOK ==
  /\ host \in {User, <<"sync">>, <<"crashed">>} \cup ({"create", "flush", "free"} \X Channels)
  /\ \A c \in Channels :
       /\ mmd[c].valid => /\ mmd[c].buf \in Buffers /\ mmd[c].size \in 1 .. MaxUnits
                          /\ mmd[c].local \in 0 .. mmd[c].size - 1
                          /\ mmd[c].local + mmd[c].offer <= mmd[c].size
       /\ drv[c].valid => drv[c].buf \in Buffers
       /\ board[c].buf # NoBuf => board[c].own < ring[board[c].buf].size
       /\ drv[c].seen \in 0 .. MaxUnits - 1
  /\ opens \in 0 .. MaxOpens /\ mmdSync \in BOOLEAN /\ drvSync \in BOOLEAN /\ sync \in BOOLEAN
  /\ loop \in 0 .. LoopMax /\ work \in BOOLEAN /\ wq \in {"idle", "decide"}
  /\ xfer \in {"none", "asked", "board", "copied"}
  /\ pinned \subseteq Buffers
  /\ \A c \in Channels : put[c] \in 0 .. Blank - 1 /\ got[c] \in 0 .. Blank

\* A channel that runs on the board reads and writes only memory the driver
\* has pinned, although closing a channel shuts off halves of both.
BoardUsesPinned == \A c \in Channels : Runs(c) => board[c].buf \in pinned

\* aclpci_dma.c:806-816 and 849-851: whatever transfers come in between, the
\* polling of an open channel does not end before the counter has run down.
Quiet == /\ host = User /\ mmdSync /\ drvSync /\ AnyOpen
         /\ ~work /\ wq = "idle" /\ Idle
PollsUntilIdle == Quiet => ~sync \/ loop = 0

\* Each channel delivers the units it was given, in order, and never has more
\* on the way than fit, across rings that wrap, pointers that arrive late and
\* channels that are closed and opened again.
PushStream == INSTANCE HostStream WITH
  Sizes <- {ChannelDepth(n) : n \in Asked["push"]},
  size <- Size("push"), sent <- put["push"], received <- got["push"]
PullStream == INSTANCE HostStream WITH
  Sizes <- {ChannelDepth(n) : n \in Asked["pull"]},
  size <- Size("pull"), sent <- put["pull"], received <- got["pull"]
ImplementsStreams == PushStream!Spec /\ PullStream!Spec
=============================================================================
