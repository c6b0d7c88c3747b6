------------------------------ MODULE MmdDevice ------------------------------
(***************************************************************************)
(* The MMD's device objects and the map from handles to them: opening,     *)
(* closing and reprogramming a board, the kernel interrupt and the signal  *)
(* it becomes, and Ctrl-C (acl_pcie.cpp, acl_pcie_device.cpp,              *)
(* acl_pcie_config.cpp), with the part of the driver they lean on: the     *)
(* open count, the interrupt's set-up and release, and the reconfiguration *)
(* flag (aclpci.c, aclpci_cmd.c, aclpci_fileio.c).                         *)
(*                                                                         *)
(* One board and one process.  Threads call the MMD; the board finishes    *)
(* kernels and raises its interrupt; the driver signals the thread that    *)
(* used the device file last (user_task), and the signal handler holds     *)
(* that thread up while it runs.                                           *)
(***************************************************************************)
EXTENDS Naturals, Sequences, FiniteSets

CONSTANTS
  Threads,      \* the host's threads
  Regions,      \* the regions of the board
  Images,       \* the files to program: records [rbf, named, sof, fast, base,
                \* quartus, core]; named: the file says its Quartus version
  FirstBase,    \* the base design on the board at the start
  FirstQuartus, \* the Quartus version that made it
  OldBases,     \* the base designs without a RAM for the version
  Trunk,        \* of each version, its length and all but its last character
  UseJtag,      \* ACL_PCIE_USE_JTAG_PROGRAMMING is set
  SkipVersion,  \* ACL_SKIP_QUARTUS_VERSION_CHECK is set
  MaxOpens,     \* bound on the calls that open
  MaxLaunches,  \* bound on the kernels the host starts
  MayInterrupt  \* the user presses Ctrl-C

ASSUME MmdAssumption ==
  /\ MaxOpens \in Nat \ {0} /\ MaxLaunches \in Nat
  /\ {UseJtag, SkipVersion, MayInterrupt} \subseteq BOOLEAN
  /\ \A i \in Images : {i.rbf, i.named, i.sof, i.fast} \subseteq BOOLEAN

VARIABLES
  uid,      \* unique_id, the static of aocl_mmd_open
  objs,     \* the device objects, in the order they were built
  map,      \* s_handle_map: for each handle 0 or a device object
  thr,      \* each thread's call, and its locals
  drv,      \* the driver's record of the board
  hw,       \* the board; quartus is its RAM for the version, made what is true
  sigs,     \* signals on their way to each thread
  hand,     \* the signal handler on each thread
  end,      \* "running", "stopping" (Ctrl-C), "exited", "crashed" (the signal
            \* handler) or "torn" (Ctrl-C met a call that was deleting)
  launched, \* kernels started so far
  ghost     \* what happened: see Spoil

vars == <<uid, objs, map, thr, drv, hw, sigs, hand, end, launched, ghost>>

Objs == 1 .. MaxOpens
Cores == {i.core : i \in Images} \cup {"none"}
Bases == {i.base : i \in Images} \cup {FirstBase, "dead"}
Versions == {i.quartus : i \in Images} \cup {FirstQuartus}

\* A RAM nobody has written holds the empty string, which is no version.
ASSUME VersionAssumption == \A v \in Versions : Trunk[v] # Trunk["blank"]

Unbuilt == [state |-> "unbuilt", handle |-> 0, init |-> FALSE, prog |-> FALSE, fn |-> FALSE]
Idle == [pc |-> "idle", obj |-> 0, handle |-> 0, image |-> CHOOSE i \in Images : TRUE,
         part |-> CHOOSE r \in Regions : TRUE, failed |-> FALSE, second |-> FALSE, reopen |-> FALSE]
Asleep == [pc |-> "none", obj |-> 0]

Live(o) == objs[o].state = "live"
Mapped == {h \in DOMAIN map : map[h] # 0}

\* A thread steps until the process ends, unless the signal handler has it.
Runs == end \in {"running", "stopping"}
Steps(t) == Runs /\ hand[t].pc = "none"
At(t, pc) == Steps(t) /\ thr[t].pc = pc
Goto(t, pc) == thr' = [thr EXCEPT ![t].pc = pc]

\* Ghosts: "overlap", two calls changed the handle map at once, and no more is
\* noted; "shared", a second handle was opened on the board, and only "late" is
\* noted after that; "deaf", the driver
\* ignored an interrupt during a reconfiguration, or a full programming failed
\* and left the interrupt off; "careless", a device was closed or reprogrammed
\* with kernels running or completions not yet served, or in a thread other
\* than the one that used it last; "late", programming began after Ctrl-C was let
\* through; "relabelled", a full programming that failed put its version in the RAM.
Spoil(marks) ==
  LET all == ghost \cup marks
  IN ghost' = IF "overlap" \in all THEN {"overlap"}
              ELSE IF "shared" \in all THEN all \cap {"shared", "late"} ELSE all

Opening(t) == thr[t].pc \in {"numbered", "built", "signalled"}
InMap(t) == Opening(t) \/ thr[t].pc \in {"delete", "closing", "discard"}
Overlap(t) == IF \E u \in Threads \ {t} : InMap(u) THEN {"overlap"} ELSE {}
Careless(t) == IF hw.running # {} \/ hw.status # {} \/ drv.task # t THEN {"careless"} ELSE {}

-----------------------------------------------------------------------------
(* The board and the driver.                                               *)

\* The interrupt is level-sensitive and leaves the board as one message when
\* the level rises: a kernel is done while enabled, or enabled while one is.
Raise(b, enable, status) ==
  [b EXCEPT !.enable = enable, !.status = status,
            !.msi = @ \/ (enable /\ status # {} /\ ~ (b.enable /\ b.status # {}))]

\* aclpci_rw: the thread of the last request is the one to signal.
Used(d, t) == [d EXCEPT !.task = t]

\* init_irq: request the line, forget nothing, and restore the saved mask.
InitIrq(d) == [d EXCEPT !.requested = TRUE]
UnmaskIrq(b, d) == Raise(b, d.saved, b.status)

\* release_irq masks, frees the line, and masks again: the second mask_irq
\* saves the zero that the first has written.
ReleaseIrq(d) == [d EXCEPT !.requested = FALSE, !.saved = FALSE]
MaskIrq(b) == [b EXCEPT !.enable = FALSE, !.msi = FALSE]

\* aclpci_open: the first handle sets the interrupt up.
DriverOpen(d, t) ==
  LET e == [d EXCEPT !.open = @ + 1, !.task = t, !.saved = FALSE]
  IN IF d.open = 0 THEN [InitIrq(e) EXCEPT !.payload = 0] ELSE e
BoardOpen(b, d, t) == IF d.open = 0 THEN UnmaskIrq(b, DriverOpen(d, t)) ELSE b

\* Mutant: the count drops twice.
DriverCloseTwice(d) ==
  LET e == [d EXCEPT !.open = @ - 2] IN IF e.open = 0 THEN ReleaseIrq(e) ELSE e

\* aclpci_close: the last handle releases it.
DriverClose(d) ==
  LET e == [d EXCEPT !.open = @ - 1] IN IF e.open = 0 THEN ReleaseIrq(e) ELSE e
BoardClose(b, d) == IF d.open = 1 THEN MaskIrq(b) ELSE b

-----------------------------------------------------------------------------
Init ==
  /\ uid = 0
  /\ objs = [o \in Objs |-> Unbuilt]
  /\ map = [h \in Objs |-> 0]
  /\ thr = [t \in Threads |-> Idle]
  /\ drv = [open |-> 0, requested |-> FALSE, saved |-> FALSE, payload |-> 0,
            task |-> "nobody", pr |-> FALSE]
  /\ hw = [enable |-> FALSE, status |-> {}, msi |-> FALSE, running |-> {},
           base |-> FirstBase, made |-> FirstQuartus, quartus |-> FirstQuartus, core |-> [r \in Regions |-> "none"], flashing |-> FALSE]
  /\ sigs = [t \in Threads |-> <<>>] /\ hand = [t \in Threads |-> Asleep]
  /\ end = "running" /\ launched = 0 /\ ghost = {}

-----------------------------------------------------------------------------
(* aocl_mmd_open.                                                          *)

\* ++unique_id, without a lock: two threads may both store the same number.
OpenNumber(t) ==
  /\ At(t, "idle") \/ At(t, "reopen")
  /\ uid < MaxOpens
  /\ \E u \in {uid + 1} \cup (IF \E v \in Threads \ {t} : thr[v].pc = "numbered" THEN {uid} ELSE {}) :
       uid' = u
  /\ Goto(t, "numbered")
  /\ Spoil(Overlap(t))
  /\ UNCHANGED <<objs, map, drv, hw, sigs, hand, end, launched>>

\* A dead board does not read its version; the memory's calibration is tried
\* eight times and may fail on any board.
VersionIdTest == IF hw.base = "dead" THEN {FALSE} ELSE BOOLEAN
WaitForUniphy == BOOLEAN
Tests == {version /\ uniphy : version \in VersionIdTest, uniphy \in WaitForUniphy}

\* The constructor: the device file, then the tests of the board.
OpenConstruct(t) ==
  /\ At(t, "numbered") /\ ~ drv.pr
  /\ \E o \in Objs :
       /\ objs[o].state = "unbuilt" /\ \A p \in 1 .. o - 1 : objs[p].state # "unbuilt"
       /\ \E sound \in Tests :
            objs' = [objs EXCEPT ![o] = [Unbuilt EXCEPT !.state = "live", !.handle = uid, !.init = sound]]
       /\ thr' = [thr EXCEPT ![t].obj = o, ![t].pc = IF objs'[o].init THEN "built" ELSE "signalled"]
  /\ drv' = DriverOpen(drv, t)
  /\ hw' = BoardOpen(hw, drv, t)
  /\ Spoil(Overlap(t) \cup (IF drv.open > 0 THEN {"shared"} ELSE {}))
  /\ UNCHANGED <<uid, map, sigs, hand, end, launched>>

\* enable_interrupts: the signal's number, which clears the payload, then the
\* payload.
OpenSignal(t) ==
  /\ At(t, "built") /\ ~ drv.pr
  /\ drv' = [Used(drv, t) EXCEPT !.payload = objs[thr[t].obj].handle]
  /\ Goto(t, "signalled")
  /\ UNCHANGED <<uid, objs, map, hw, sigs, hand, end, launched, ghost>>

\* The handle is read again from the static that other threads advance.
OpenRecord(t) ==
  /\ At(t, "signalled")
  /\ map' = [map EXCEPT ![uid] = thr[t].obj]
  /\ thr' = [thr EXCEPT ![t] = Idle]
  /\ Spoil(Overlap(t))
  /\ UNCHANGED <<uid, objs, drv, hw, sigs, hand, end, launched>>

(* aocl_mmd_close, and the end of a reprogramming that succeeded.          *)

\* The host closes or reprograms a handle it has, in one thread at a time.
Mine(t, h) == map[h] # 0 /\ \A u \in Threads \ {t} : thr[u].handle # h

Close(t, h) ==
  /\ At(t, "idle") /\ Mine(t, h)
  /\ thr' = [thr EXCEPT ![t] = [Idle EXCEPT !.pc = "delete", !.obj = map[h], !.handle = h]]
  /\ Spoil(Overlap(t) \cup Careless(t))
  /\ UNCHANGED <<uid, objs, map, drv, hw, sigs, hand, end, launched>>

\* The destructor: its parts first, then the file.
DeleteParts(t) ==
  /\ At(t, "delete")
  /\ objs' = [objs EXCEPT ![thr[t].obj].state = "dying"]
  /\ drv' = Used(drv, t)
  /\ Goto(t, "closing")
  /\ UNCHANGED <<uid, map, hw, sigs, hand, end, launched, ghost>>

DeleteDone(t) ==
  /\ At(t, "closing") /\ ~ drv.pr
  /\ objs' = [objs EXCEPT ![thr[t].obj].state = "freed", ![thr[t].obj].init = FALSE, ![thr[t].obj].fn = FALSE]
  /\ drv' = DriverClose(drv) /\ hw' = BoardClose(hw, drv)
  /\ ghost' = IF drv.open = 1 THEN ghost \ {"deaf"} ELSE ghost
  /\ Goto(t, "discard")
  /\ UNCHANGED <<uid, map, sigs, hand, end, launched>>

\* Mutant: the handle stays in the map.
DiscardNot(t) ==
  /\ At(t, "discard")
  /\ thr' = [thr EXCEPT ![t] = [Idle EXCEPT !.pc = IF thr[t].reopen THEN "reopen" ELSE "idle"]]
  /\ UNCHANGED <<uid, objs, map, drv, hw, sigs, hand, end, launched, ghost>>

Discard(t) ==
  /\ At(t, "discard")
  /\ map' = [map EXCEPT ![thr[t].handle] = 0]
  /\ thr' = [thr EXCEPT ![t] = [Idle EXCEPT !.pc = IF thr[t].reopen THEN "reopen" ELSE "idle"]]
  /\ UNCHANGED <<uid, objs, drv, hw, sigs, hand, end, launched, ghost>>

-----------------------------------------------------------------------------
(* aocl_mmd_reprogram.                                                     *)

Reprogram(t, h, image, part) ==
  /\ At(t, "idle") /\ Mine(t, h)
  /\ objs' = [objs EXCEPT ![map[h]].prog = TRUE]
  /\ thr' = [thr EXCEPT ![t] = [Idle EXCEPT !.pc = "pr", !.obj = map[h], !.handle = h,
                                            !.image = image, !.part = part]]
  /\ Spoil(Overlap(t) \cup Careless(t) \cup (IF end = "stopping" THEN {"late"} ELSE {}))
  /\ UNCHANGED <<uid, map, drv, hw, sigs, hand, end, launched>>

\* The version of the file against the board's RAM, when the board has one: the
\* lengths, and by strncmp all the characters but the last.  The base it was
\* compiled on against the board's.
QuartusVerTest(t) == hw.base \notin OldBases /\ Trunk[hw.quartus] = Trunk[thr[t].image.quartus]
PrBaseIdTest(t) == hw.base = thr[t].image.base

\* Mutant: the version is read and not looked at.
ReconfiguresAnyVersion(t) == ~ UseJtag /\ thr[t].image.rbf /\ PrBaseIdTest(t)

\* pr_reprogram reconfigures only when nothing asks for JTAG, the file has what
\* it takes, and both match; failing to do so is not an error to it.
Reconfigures(t) ==
  /\ ~ UseJtag /\ thr[t].image.rbf
  /\ SkipVersion \/ (thr[t].image.named /\ QuartusVerTest(t))
  /\ PrBaseIdTest(t)

\* reprogram then falls back to JTAG, the first time round.  The second time
\* the flags were cleared beforehand.
FallsBack(t) == ~ Reconfigures(t) /\ ~ thr[t].second

\* A kernel that finishes while the driver reconfigures raises an interrupt
\* the driver ignores: see Irq.
PrBegin(t) ==
  /\ At(t, "pr") /\ Reconfigures(t) /\ ~ drv.pr
  /\ drv' = [Used(drv, t) EXCEPT !.pr = TRUE]
  /\ Goto(t, "reconfiguring")
  /\ UNCHANGED <<uid, objs, map, hw, sigs, hand, end, launched, ghost>>

PrEnd(t) ==
  /\ At(t, "reconfiguring")
  /\ drv' = [drv EXCEPT !.pr = FALSE]
  /\ \E good \in BOOLEAN :
       /\ hw' = [hw EXCEPT !.core[thr[t].part] = IF good THEN thr[t].image.core ELSE "none",
                           !.running = @ \ {thr[t].part}, !.status = @ \ {thr[t].part}]
       /\ thr' = [thr EXCEPT ![t].pc = "programmed", ![t].failed = ~ good]
  /\ UNCHANGED <<uid, objs, map, sigs, hand, end, launched, ghost>>

\* No reconfiguration: fall back to JTAG if the file has a full design, or be
\* done.
PrNot(t) ==
  /\ At(t, "pr") /\ ~ Reconfigures(t)
  /\ thr' = [thr EXCEPT
       ![t].pc = IF FallsBack(t) /\ thr[t].image.sof THEN "save" ELSE "programmed",
       ![t].failed = FallsBack(t) /\ ~ thr[t].image.sof]
  /\ drv' = IF thr[t].image.rbf /\ (thr[t].image.named \/ SkipVersion) /\ ~ UseJtag
            THEN Used(drv, t) ELSE drv
  /\ UNCHANGED <<uid, objs, map, hw, sigs, hand, end, launched, ghost>>

\* save_pci_control_regs, then the file is written out: when that fails,
\* reprogram leaves at once with the result of the reconfiguration that never
\* was, zero, and the flag still set.
SaveControl(t) ==
  /\ At(t, "save") /\ ~ drv.pr
  /\ drv' = ReleaseIrq(Used(drv, t))
  /\ \E wrote \in BOOLEAN :
       /\ hw' = [MaskIrq(hw) EXCEPT !.flashing = wrote]
       /\ thr' = [thr EXCEPT ![t].pc = IF wrote THEN "jtag" ELSE "delete", ![t].reopen = TRUE]
  /\ UNCHANGED <<uid, objs, map, sigs, hand, end, launched, ghost>>

\* program_with_SOF_file: up to three attempts that succeed, leave the board as
\* it was, or leave it dead; a full design brings its kernel to every region,
\* except a base design made to be reconfigured, and its RAM holds no version.
Jtag(t) ==
  /\ At(t, "jtag")
  /\ \E outcome \in {"good", "untouched", "dead"} :
       LET i == thr[t].image
           core == IF outcome = "dead" \/ i.fast THEN "none" ELSE i.core
       IN /\ hw' = IF outcome = "untouched" THEN [hw EXCEPT !.flashing = FALSE]
                   ELSE [hw EXCEPT !.flashing = FALSE, !.base = IF outcome = "dead" THEN "dead" ELSE i.base,
                                   !.made = i.quartus, !.quartus = "blank",
                                   !.core = [r \in Regions |-> core], !.running = {}, !.status = {}]
          /\ thr' = [thr EXCEPT ![t].pc = "load", ![t].failed = outcome # "good"]
  /\ UNCHANGED <<uid, objs, map, drv, sigs, hand, end, launched, ghost>>

Labels(t) == thr[t].image.named /\ ~ SkipVersion

\* load_pci_control_regs, the version into the RAM, if the file says it, whether
\* the programming failed or not, the tests, and the reconfiguration on top of a base design.
LoadControl(t) ==
  /\ At(t, "load") /\ ~ drv.pr
  /\ drv' = InitIrq(Used(drv, t))
  /\ hw' = IF Labels(t) THEN [UnmaskIrq(hw, drv) EXCEPT !.quartus = thr[t].image.quartus]
           ELSE UnmaskIrq(hw, drv)
  /\ \E sound \in Tests :
       thr' = [thr EXCEPT ![t].pc = IF thr[t].image.fast THEN "pr" ELSE "programmed",
                          ![t].failed = @ \/ ~ sound, ![t].second = TRUE, ![t].reopen = FALSE]
  /\ Spoil(IF Labels(t) /\ hw.made # thr[t].image.quartus THEN {"relabelled"} ELSE {})
  /\ UNCHANGED <<uid, objs, map, sigs, hand, end, launched>>

Programmed(t) ==
  /\ At(t, "programmed")
  /\ objs' = [objs EXCEPT ![thr[t].obj].prog = FALSE]
  /\ thr' = [thr EXCEPT ![t] = IF thr[t].failed THEN Idle ELSE [@ EXCEPT !.pc = "delete", !.reopen = TRUE]]
  /\ Spoil(IF thr[t].failed /\ thr[t].second THEN {"deaf"} ELSE {})
  /\ UNCHANGED <<uid, map, drv, hw, sigs, hand, end, launched>>

-----------------------------------------------------------------------------
(* Kernels, the interrupt, and the signal handler.                         *)

\* The runtime installs its handler once, and starts kernels after that.
SetHandler(t, h) ==
  /\ At(t, "idle") /\ Mine(t, h) /\ ~ drv.pr
  /\ objs[map[h]].init /\ ~ objs[map[h]].fn
  /\ objs' = [objs EXCEPT ![map[h]].fn = TRUE]
  /\ hw' = Raise(hw, TRUE, hw.status) /\ drv' = Used(drv, t)
  /\ UNCHANGED <<uid, map, thr, sigs, hand, end, launched, ghost>>

Launch(t, h, r) ==
  /\ At(t, "idle") /\ Mine(t, h) /\ objs[map[h]].fn
  /\ hw.core[r] # "none" /\ r \notin hw.running \cup hw.status
  /\ launched < MaxLaunches
  /\ hw' = [hw EXCEPT !.running = @ \cup {r}] /\ drv' = Used(drv, t)
  /\ launched' = launched + 1
  /\ UNCHANGED <<uid, objs, map, thr, sigs, hand, end, ghost>>

KernelDone(r) ==
  /\ Runs /\ r \in hw.running
  /\ hw' = [Raise(hw, hw.enable, hw.status \cup {r}) EXCEPT !.running = @ \ {r}]
  /\ UNCHANGED <<uid, objs, map, thr, drv, sigs, hand, end, launched, ghost>>

\* Mutant: the signal is sent twice.
IrqTwice ==
  /\ Runs /\ hw.msi /\ drv.requested
  /\ hw' = [hw EXCEPT !.msi = FALSE, !.enable = FALSE]
  /\ sigs' = IF drv.pr THEN sigs ELSE [sigs EXCEPT ![drv.task] = @ \o <<drv.payload, drv.payload>>]
  /\ UNCHANGED <<uid, objs, map, thr, drv, hand, end, launched, ghost>>

\* aclpci_irq.
Irq ==
  /\ Runs /\ hw.msi /\ drv.requested
  /\ IF drv.pr
     THEN /\ hw' = [hw EXCEPT !.msi = FALSE]
          /\ Spoil({"deaf"}) /\ UNCHANGED sigs
     ELSE IF hw.status = {}
     THEN hw' = [hw EXCEPT !.msi = FALSE] /\ UNCHANGED <<sigs, ghost>>
     ELSE /\ hw' = [hw EXCEPT !.msi = FALSE, !.enable = FALSE]
          /\ sigs' = [sigs EXCEPT ![drv.task] = Append(@, drv.payload)] /\ UNCHANGED ghost
  /\ UNCHANGED <<uid, objs, map, thr, drv, hand, end, launched>>

\* A signal waits while its thread is inside the driver.
\* pcie_linux_signal_handler ignores a handle it does not know.
SignalTaken(t) ==
  /\ Steps(t) /\ sigs[t] # <<>> /\ thr[t].pc # "reconfiguring"
  /\ sigs' = [sigs EXCEPT ![t] = Tail(@)]
  /\ LET h == Head(sigs[t]) IN
     hand' = IF h \in Mapped THEN [hand EXCEPT ![t] = [pc |-> "found", obj |-> map[h]]] ELSE hand
  /\ UNCHANGED <<uid, objs, map, thr, drv, hw, end, launched, ghost>>

\* The runtime's callback reads and clears what is done; it and the write that
\* lets interrupts through again go through the device object to the board.
Reachable(t) == Live(hand[t].obj) /\ ~ hw.flashing

Callback(t) ==
  /\ Runs /\ hand[t].pc = "found" /\ ~ drv.pr
  /\ IF Reachable(t)
     THEN /\ hw' = IF objs[hand[t].obj].fn THEN Raise(hw, hw.enable, {}) ELSE hw
          /\ drv' = IF objs[hand[t].obj].fn THEN Used(drv, t) ELSE drv
          /\ hand' = [hand EXCEPT ![t].pc = "called"] /\ UNCHANGED end
     ELSE end' = "crashed" /\ UNCHANGED <<hw, drv, hand>>
  /\ UNCHANGED <<uid, objs, map, thr, sigs, launched, ghost>>

\* Mutant: the interrupt stays masked.
UnmaskKernelNot(t) ==
  /\ Runs /\ hand[t].pc = "called" /\ ~ drv.pr
  /\ hand' = [hand EXCEPT ![t] = Asleep]
  /\ UNCHANGED <<uid, objs, map, thr, drv, hw, sigs, end, launched, ghost>>

UnmaskKernel(t) ==
  /\ Runs /\ hand[t].pc = "called" /\ ~ drv.pr
  /\ IF Reachable(t)
     THEN /\ hw' = Raise(hw, TRUE, hw.status) /\ drv' = Used(drv, t)
          /\ hand' = [hand EXCEPT ![t] = Asleep] /\ UNCHANGED end
     ELSE end' = "crashed" /\ UNCHANGED <<hw, drv, hand>>
  /\ UNCHANGED <<uid, objs, map, thr, sigs, launched, ghost>>

(* Ctrl-C: refused while a device is being programmed; else every device    *)
(* object is deleted, and the process exits.                                *)

\* Mutant: only when all of them are being programmed.
AllProgrammed == Mapped # {} /\ \A h \in Mapped : objs[map[h]].prog

AnyProgrammed == \E h \in Mapped : objs[map[h]].prog

CtrlC ==
  /\ MayInterrupt /\ end = "running" /\ ~ AnyProgrammed
  /\ end' = "stopping"
  /\ UNCHANGED <<uid, objs, map, thr, drv, hw, sigs, hand, launched, ghost>>

FreeAll ==
  /\ end = "stopping" /\ ~ drv.pr
  /\ end' = IF \E h \in Mapped : ~ Live(map[h]) THEN "torn" ELSE "exited"
  /\ drv' = ReleaseIrq(drv) /\ hw' = MaskIrq(hw)
  /\ UNCHANGED <<uid, objs, map, thr, sigs, hand, launched, ghost>>

Calls(t) ==
  \/ OpenNumber(t) \/ OpenConstruct(t) \/ OpenSignal(t) \/ OpenRecord(t)
  \/ \E h \in Mapped : Close(t, h)
  \/ \E h \in Mapped : SetHandler(t, h)
  \/ \E h \in Mapped, r \in Regions : Launch(t, h, r)
  \/ \E h \in Mapped, i \in Images, r \in Regions : Reprogram(t, h, i, r)
  \/ DeleteParts(t) \/ DeleteDone(t) \/ Discard(t)
  \/ PrBegin(t) \/ PrEnd(t) \/ PrNot(t)
  \/ SaveControl(t) \/ Jtag(t) \/ LoadControl(t) \/ Programmed(t)

Next ==
  \/ \E t \in Threads : Calls(t) \/ SignalTaken(t) \/ Callback(t) \/ UnmaskKernel(t)
  \/ \E r \in Regions : KernelDone(r)
  \/ Irq
  \/ CtrlC \/ FreeAll

Spec == Init /\ [][Next]_vars

-----------------------------------------------------------------------------
(* Type invariant: acl_pcie.cpp's statics, the device objects and the       *)
(* driver's record have the values their declarations allow.                *)
TypeOK ==
  /\ uid \in 0 .. MaxOpens /\ launched \in 0 .. MaxLaunches
  /\ objs \in [Objs -> [state : {"unbuilt", "live", "dying", "freed"}, handle : 0 .. MaxOpens,
                        init : BOOLEAN, prog : BOOLEAN, fn : BOOLEAN]]
  /\ map \in [Objs -> 0 .. MaxOpens]
  /\ drv.open \in 0 .. MaxOpens /\ drv.payload \in 0 .. MaxOpens /\ drv.task \in Threads \cup {"nobody"}
  /\ hw.base \in Bases /\ hw.made \in Versions /\ hw.quartus \in Versions \cup {"blank"} /\ hw.core \in [Regions -> Cores]
  /\ hw.running \cap hw.status = {}
  /\ end \in {"running", "stopping", "exited", "crashed", "torn"}

\* As long as calls that change the handle map do not overlap, a handle names
\* the device object that was built for it (the number the driver's signals
\* carry), and a freed object stays in the map only inside the call that freed
\* it (aocl_mmd_open and aocl_mmd_close, acl_pcie.cpp:436-478).
HandleNamesItsDevice ==
  "overlap" \notin ghost /\ end # "exited" =>
    \A h \in Mapped :
      /\ objs[map[h]].handle = h
      /\ objs[map[h]].state = "freed" => \E t \in Threads : thr[t].pc = "discard" /\ thr[t].handle = h

\* The device of handle h is open, alone on its board, ready to be told of
\* completions, in no call, and nothing that loses interrupts has happened.
Ready(h) ==
  /\ map[h] # 0 /\ Runs
  /\ objs[map[h]].fn /\ Live(map[h])
  /\ \A t \in Threads : thr[t].obj # map[h]
  /\ ghost \cap {"overlap", "shared", "deaf"} = {}

\* No completion is lost: when a kernel of a ready device is done, the board's
\* message, the driver's signal or the handler is under way to report it
\* (aclpci_irq masks until the MMD has served the kernel and unmasks:
\* aclpci.c:297-370, acl_pcie_device.cpp:331-366).
CompletionOnItsWay ==
  \A h \in Objs : Ready(h) /\ hw.status # {} =>
    \/ hw.msi /\ drv.requested
    \/ \E t \in Threads : hand[t].obj = map[h] \/ \E i \in 1 .. Len(sigs[t]) : sigs[t][i] = h

\* A host that closes or reprograms a device only when no kernel runs and no
\* completion waits, in the thread that used the device last, never has its signal
\* handler use a device object that is being deleted, nor the board while its
\* full design is written (acl_pcie.cpp:121-134, acl_pcie_device.cpp:177-205).
CarefulHostIsSafe ==
  end = "crashed" => ghost \cap {"careless", "shared", "overlap"} # {}

\* Ctrl-C does not end the process while a device is being programmed, unless
\* the programming began after the handler had looked (acl_pcie.cpp:144-157).
CtrlCSparesProgramming ==
  end = "exited" /\ ghost \cap {"late", "overlap"} = {} =>
    \A t \in Threads : thr[t].pc \notin {"pr", "reconfiguring", "save", "jtag", "load"}

\* Unless the user skips the check, a region is reconfigured only on a design whose
\* Quartus version differs from the file's in the last character at most, whatever
\* files have been programmed in whichever way before; except when two handles
\* share the board, or a full programming that failed has put its version in the
\* board's RAM (acl_pcie_device.cpp:1071 and 1201).
SameQuartus ==
  \A t \in Threads :
    /\ thr[t].pc = "reconfiguring" /\ ~ SkipVersion
    /\ ghost \cap {"relabelled", "shared", "overlap"} = {}
    => Trunk[hw.made] = Trunk[thr[t].image.quartus]

\* acl_pcie_device.cpp:1075 "aocx and programmed sof is from same Quartus version":
\* the same again, for the version itself.
ExactQuartus ==
  \A t \in Threads :
    /\ thr[t].pc = "reconfiguring" /\ ~ SkipVersion
    /\ ghost \cap {"relabelled", "shared", "overlap"} = {}
    => hw.made = thr[t].image.quartus

\* aocl_mmd_reprogram returns a handle only when the region holds the core of
\* the file (acl_pcie_device.cpp:1021-1026 and 1118: "Return 0 on success").
SuccessMeansProgrammed ==
  \A t \in Threads : thr[t].pc = "delete" /\ thr[t].reopen => hw.core[thr[t].part] = thr[t].image.core
=============================================================================
