--------------------------- MODULE MmdDeviceProofs ---------------------------
(***************************************************************************)
(* Proofs about MmdDevice, for any threads, regions, files and bounds: the *)
(* type invariant, and the safety invariants that its runs check.          *)
(*                                                                         *)
(* The inductive invariant has these parts, each resting on those before:  *)
(*   CoreInv     the shape of the state, and who holds which device object *)
(*               whatever the threads do: an object is in one slot of the  *)
(*               handle map or one call, and the driver's open count is    *)
(*               the number of files not closed;                           *)
(*   MapInv      of the handle map, if opens never overlap;                *)
(*   CtrlCInv    of a programming that is on its way when Ctrl-C comes;    *)
(*   AloneInv    of the board while one handle is open on it;              *)
(*   CarefulInv  of the board's report and the objects it is about, with a *)
(*               careful host;                                             *)
(*   WatchInv    of the interrupt, while nothing has made the driver deaf. *)
(***************************************************************************)
EXTENDS MmdDevice, Integers, FiniteSetTheorems, TLAPS

-----------------------------------------------------------------------------
(* The shape of the state.                                                 *)

ObjStates == {"unbuilt", "live", "dying", "freed"}
Programming == {"pr", "reconfiguring", "save", "jtag", "load"}
InCall == Programming \cup {"programmed", "delete", "closing", "discard"}
PCs == InCall \cup {"idle", "numbered", "built", "signalled", "reopen"}

ObjRecords == [state : ObjStates, handle : 0 .. MaxOpens, init : BOOLEAN, prog : BOOLEAN, fn : BOOLEAN]

\* A call has an image and a region when it programs, an object from when the
\* constructor has run, and a handle unless it opens.
CallFields == [pc : PCs, obj : 0 .. MaxOpens, handle : 0 .. MaxOpens,
               image : Images \cup {Idle.image}, part : Regions \cup {Idle.part},
               failed : BOOLEAN, second : BOOLEAN, reopen : BOOLEAN]
CallRecords == {c \in CallFields :
  /\ c.pc \in Programming => c.image \in Images /\ c.part \in Regions
  /\ c.pc \in InCall \cup {"built", "signalled"} <=> c.obj # 0
  /\ c.pc \in InCall <=> c.handle # 0}

DrvRecords == [open : Int, requested : BOOLEAN, saved : {FALSE}, payload : 0 .. MaxOpens,
               task : Threads \cup {"nobody"}, pr : BOOLEAN]

\* A kernel does not run in a region that waits to be told it is done.
HwFields == [enable : BOOLEAN, status : SUBSET Regions, msi : BOOLEAN, running : SUBSET Regions,
             base : Bases, made : Versions, quartus : Versions \cup {"blank"},
             core : [Regions -> Cores], flashing : BOOLEAN]
HwRecords == {b \in HwFields : b.running \cap b.status = {}}

HandFields == [pc : {"none", "found", "called"}, obj : 0 .. MaxOpens]
HandRecords == {r \in HandFields : r.pc = "none" <=> r.obj = 0}

TypeInv ==
  /\ uid \in 0 .. MaxOpens /\ launched \in 0 .. MaxLaunches
  /\ objs \in [Objs -> ObjRecords]
  /\ map \in [Objs -> 0 .. MaxOpens]
  /\ thr \in [Threads -> CallRecords]
  /\ drv \in DrvRecords
  /\ hw \in HwRecords
  /\ sigs \in [Threads -> Seq(0 .. MaxOpens)]
  /\ hand \in [Threads -> HandRecords]
  /\ end \in {"running", "stopping", "exited", "crashed", "torn"}

-----------------------------------------------------------------------------
(* Who holds a device object.                                              *)

\* The state of the object a thread's call is about.
StateIn(pc) == CASE pc = "closing" -> "dying" [] pc = "discard" -> "freed" [] OTHER -> "live"

ObjectOfCall == \A t \in Threads : thr[t].obj # 0 => objs[thr[t].obj].state = StateIn(thr[t].pc)

\* An object being opened has no handler yet.
NewHasNoHandler == \A t \in Threads : thr[t].pc \in {"built", "signalled"} => ~ objs[thr[t].obj].fn

\* Two calls never work on one object, nor on one handle.
OneCall == \A t, u \in Threads : t # u /\ thr[t].obj # 0 => thr[t].obj # thr[u].obj
OneHandle == \A t, u \in Threads : t # u /\ thr[t].handle # 0 => thr[t].handle # thr[u].handle

\* An object is in one slot of the map, and a call about it knows that slot.
OneSlot == \A h, k \in Objs : map[h] # 0 /\ map[h] = map[k] => h = k
CallKnowsSlot == \A t \in Threads, h \in Objs : map[h] # 0 /\ map[h] = thr[t].obj => thr[t].handle = h

\* A slot holds an object that was built; one that is going is in a call.
SlotIsBuilt == \A h \in Objs : map[h] # 0 => objs[map[h]].state # "unbuilt"
GoingIsInCall ==
  \A h \in Objs : map[h] # 0 /\ objs[map[h]].state # "live" =>
    \E t \in Threads : thr[t].obj = map[h] /\ thr[t].pc \in {"closing", "discard"}

\* The driver counts the files that are open.
OpenFiles == {o \in Objs : objs[o].state \in {"live", "dying"}}
CountIsRight == drv.open = Cardinality(OpenFiles)

\* The interrupt is set up for a thread that can be told.
TaskKnown == drv.requested => drv.task \in Threads

Owned ==
  /\ ObjectOfCall /\ NewHasNoHandler
  /\ OneCall /\ OneHandle
  /\ OneSlot /\ CallKnowsSlot
  /\ SlotIsBuilt /\ GoingIsInCall
  /\ CountIsRight

CoreInv == TypeInv /\ TaskKnown /\ Owned

-----------------------------------------------------------------------------
(* What holds while the ghosts are clean.                                  *)

Ordered == "overlap" \notin ghost
Alone == ghost \cap {"overlap", "shared"} = {}
Careful == ghost \cap {"overlap", "shared", "careless"} = {}
Attentive == ghost \cap {"overlap", "shared", "deaf"} = {}

\* Without overlap: one thread opens at a time, and the number it has drawn is
\* new; a call's slot holds its object; a slot's object carries its number.
OneOpens == \A t, u \in Threads : t # u => ~ (Opening(t) /\ Opening(u))
NumberIsNew ==
  /\ \A h \in Objs : map[h] # 0 => h <= uid
  /\ \A t \in Threads : Opening(t) => uid \in Objs /\ map[uid] = 0
  /\ \A t \in Threads : thr[t].pc \in {"built", "signalled"} => objs[thr[t].obj].handle = uid
SlotOfCall == \A t \in Threads : thr[t].handle # 0 => map[thr[t].handle] = thr[t].obj
SlotNamesDevice == \A h \in Objs : map[h] # 0 => objs[map[h]].handle = h

MapInv == Ordered => OneOpens /\ NumberIsNew /\ SlotOfCall /\ SlotNamesDevice

\* A device that is being programmed is marked so, and no programming begins
\* unnoticed after Ctrl-C.
Marked == \A t \in Threads : thr[t].pc \in Programming => objs[thr[t].obj].prog
CtrlCInv ==
  /\ Marked
  /\ end \in {"stopping", "exited"} /\ Ordered /\ "late" \notin ghost =>
       \A t \in Threads : thr[t].pc \notin Programming

\* One handle on the board: one object's file is open, and none while a call
\* takes the last one's slot out of the map; the version in the RAM, if there is
\* one, is the one that made the design.
OneFile == \A o, p \in OpenFiles : o = p
Labelled ==
  "relabelled" \notin ghost =>
    /\ hw.quartus \in {hw.made, "blank"}
    /\ \A t \in Threads : thr[t].pc = "reconfiguring" /\ ~ SkipVersion =>
         Trunk[hw.made] = Trunk[thr[t].image.quartus]
NoneLeft == \A t \in Threads : thr[t].pc = "discard" => OpenFiles = {}
AloneInv == Alone => OneFile /\ NoneLeft /\ Labelled

\* A careful host: the board is busy, and its interrupt on the way, only for a
\* device with a handler that no call works on; one report at a time, and the
\* board masked for as long as it lasts.
Reporting(t) == sigs[t] # <<>> \/ hand[t].pc # "none"
Busy == hw.running # {} \/ hw.status # {} \/ \E t \in Threads : Reporting(t)
Served == \E o \in Objs : Live(o) /\ objs[o].fn /\ \A t \in Threads : thr[t].obj # o
OneReport ==
  \A t \in Threads : Reporting(t) =>
    /\ ~ hw.enable /\ ~ hw.msi
    /\ \A u \in Threads \ {t} : ~ Reporting(u)
    /\ sigs[t] # <<>> => Tail(sigs[t]) = <<>> /\ hand[t].pc = "none" /\ hw.status # {}
    /\ hand[t].pc = "found" => hw.status # {}
    /\ hand[t].pc = "called" => hw.status # {} \/ hw.running # {} \/ drv.task = t
RaisedByLevel == hw.msi => hw.enable /\ hw.status # {}
MaskedWhenClosed == drv.open = 0 => ~ hw.enable
HandIsLive == \A t \in Threads : hand[t].pc # "none" => Live(hand[t].obj)
FlashedInCall == hw.flashing => \E t \in Threads : thr[t].pc = "jtag"
Safe ==
  /\ RaisedByLevel /\ MaskedWhenClosed
  /\ Busy => Served
  /\ OneReport /\ HandIsLive /\ FlashedInCall
CarefulInv ==
  /\ end = "crashed" => ~ Careful
  /\ Careful => Safe

\* The board is not ignored: the interrupt is set up, and what the driver sends
\* is the open handle's number; a device that has its handler, and that no full
\* programming has cut off, has its interrupt on, or a report under way that
\* turns it on.
HandlerWasSound == \A o \in Objs : objs[o].fn => objs[o].init
PayloadIsHandle ==
  \A o \in Objs : Live(o) /\ objs[o].init /\ (\A t \in Threads : thr[t].pc = "built" => thr[t].obj # o) =>
    drv.payload = objs[o].handle
SetUp ==
  \A o \in Objs :
    /\ Live(o)
    /\ \A t \in Threads : thr[t].obj = o => thr[t].pc \notin {"jtag", "load", "delete"}
    => drv.requested
Watched(h) ==
  /\ map[h] # 0 /\ objs[map[h]].fn /\ Live(map[h])
  /\ \A t \in Threads : thr[t].obj = map[h] =>
       thr[t].pc \in {"pr", "reconfiguring", "save", "programmed"} /\ ~ thr[t].second
Told(h) == \E t \in Threads : hand[t].obj = map[h] \/ \E i \in 1 .. Len(sigs[t]) : sigs[t][i] = h
LevelIsSent == hw.enable /\ hw.status # {} => hw.msi
WatchedIsHeard == \A h \in Objs : Watched(h) => hw.enable \/ Told(h)
WatchInv ==
  /\ HandlerWasSound
  /\ Alone => PayloadIsHandle
  /\ Alone /\ Runs => SetUp
  /\ Attentive /\ Runs => LevelIsSent /\ WatchedIsHeard

-----------------------------------------------------------------------------
(* What the operators on the board's and the driver's record return.       *)

LEMMA RaiseFacts ==
  ASSUME NEW b \in HwFields, NEW e \in BOOLEAN, NEW s \in SUBSET Regions
  PROVE  /\ Raise(b, e, s) \in HwFields
         /\ Raise(b, e, s).enable = e /\ Raise(b, e, s).status = s
         /\ Raise(b, e, s).msi <=> (b.msi \/ (e /\ s # {} /\ ~ (b.enable /\ b.status # {})))
         /\ Raise(b, e, s).running = b.running /\ Raise(b, e, s).flashing = b.flashing
         /\ Raise(b, e, s).base = b.base /\ Raise(b, e, s).made = b.made
         /\ Raise(b, e, s).quartus = b.quartus /\ Raise(b, e, s).core = b.core
BY DEF Raise, HwFields

LEMMA MaskFacts ==
  ASSUME NEW b \in HwRecords
  PROVE  /\ MaskIrq(b) \in HwRecords
         /\ MaskIrq(b).enable = FALSE /\ MaskIrq(b).status = b.status /\ MaskIrq(b).msi = FALSE
         /\ MaskIrq(b).running = b.running /\ MaskIrq(b).flashing = b.flashing
         /\ MaskIrq(b).base = b.base /\ MaskIrq(b).made = b.made
         /\ MaskIrq(b).quartus = b.quartus /\ MaskIrq(b).core = b.core
BY DEF MaskIrq, HwRecords, HwFields

LEMMA UnmaskFacts ==
  ASSUME NEW b \in HwRecords, NEW d \in DrvRecords
  PROVE  /\ UnmaskIrq(b, d) \in HwRecords
         /\ UnmaskIrq(b, d).enable = FALSE /\ UnmaskIrq(b, d).status = b.status
         /\ UnmaskIrq(b, d).msi = b.msi
         /\ UnmaskIrq(b, d).running = b.running /\ UnmaskIrq(b, d).flashing = b.flashing
         /\ UnmaskIrq(b, d).base = b.base /\ UnmaskIrq(b, d).made = b.made
         /\ UnmaskIrq(b, d).quartus = b.quartus /\ UnmaskIrq(b, d).core = b.core
<1>1. UnmaskIrq(b, d) = [b EXCEPT !.enable = FALSE]
  <2>1. d.saved = FALSE /\ b \in HwFields /\ b.msi \in BOOLEAN
    BY DEF DrvRecords, HwRecords, HwFields
  <2>2. (b.msi \/ (FALSE /\ b.status # {} /\ ~ (b.enable /\ b.status # {}))) = b.msi
    BY <2>1
  <2>. QED
    BY <2>1, <2>2 DEF UnmaskIrq, Raise, HwFields
<1>. QED
  BY <1>1 DEF HwRecords, HwFields

LEMMA UsedFacts ==
  ASSUME NEW d \in DrvRecords, NEW t \in Threads
  PROVE  /\ Used(d, t) \in DrvRecords
         /\ Used(d, t).task = t /\ Used(d, t).open = d.open /\ Used(d, t).requested = d.requested
         /\ Used(d, t).payload = d.payload /\ Used(d, t).pr = d.pr
BY DEF Used, DrvRecords

LEMMA InitIrqFacts ==
  ASSUME NEW d \in DrvRecords
  PROVE  /\ InitIrq(d) \in DrvRecords
         /\ InitIrq(d).requested = TRUE /\ InitIrq(d).open = d.open /\ InitIrq(d).task = d.task
         /\ InitIrq(d).payload = d.payload /\ InitIrq(d).pr = d.pr
BY DEF InitIrq, DrvRecords

LEMMA ReleaseFacts ==
  ASSUME NEW d \in DrvRecords
  PROVE  /\ ReleaseIrq(d) \in DrvRecords
         /\ ReleaseIrq(d).requested = FALSE /\ ReleaseIrq(d).open = d.open
         /\ ReleaseIrq(d).task = d.task /\ ReleaseIrq(d).payload = d.payload /\ ReleaseIrq(d).pr = d.pr
BY DEF ReleaseIrq, DrvRecords

LEMMA DriverOpenFacts ==
  ASSUME NEW d \in DrvRecords, NEW t \in Threads
  PROVE  /\ DriverOpen(d, t) \in DrvRecords
         /\ DriverOpen(d, t).open = d.open + 1 /\ DriverOpen(d, t).task = t
         /\ d.open = 0 => DriverOpen(d, t).requested
         /\ d.open # 0 => DriverOpen(d, t).requested = d.requested
         /\ DriverOpen(d, t).payload = (IF d.open = 0 THEN 0 ELSE d.payload)
         /\ DriverOpen(d, t).pr = d.pr
<1>1. 0 \in 0 .. MaxOpens
  BY MmdAssumption
<1>2. PICK n \in Int : n = d.open + 1
  BY DEF DrvRecords
<1>3. CASE d.open = 0
  <2>1. DriverOpen(d, t) = [d EXCEPT !.open = n, !.task = t, !.saved = FALSE,
                                     !.requested = TRUE, !.payload = 0]
    BY <1>2, <1>3 DEF DriverOpen, InitIrq, DrvRecords
  <2>. QED
    BY <1>1, <1>2, <1>3, <2>1 DEF DrvRecords
<1>4. CASE d.open # 0
  <2>1. DriverOpen(d, t) = [d EXCEPT !.open = n, !.task = t, !.saved = FALSE]
    BY <1>2, <1>4 DEF DriverOpen
  <2>. QED
    BY <1>2, <1>4, <2>1 DEF DrvRecords
<1>. QED
  BY <1>3, <1>4

LEMMA DriverCloseFacts ==
  ASSUME NEW d \in DrvRecords
  PROVE  /\ DriverClose(d) \in DrvRecords
         /\ DriverClose(d).open = d.open - 1 /\ DriverClose(d).task = d.task
         /\ DriverClose(d).payload = d.payload /\ DriverClose(d).pr = d.pr
         /\ d.open = 1 => ~ DriverClose(d).requested
         /\ d.open # 1 => DriverClose(d).requested = d.requested
<1>1. PICK n \in Int : n = d.open - 1
  BY DEF DrvRecords
<1>2. n = 0 <=> d.open = 1
  BY <1>1 DEF DrvRecords
<1>3. CASE d.open = 1
  <2>1. DriverClose(d) = [d EXCEPT !.open = n, !.requested = FALSE, !.saved = FALSE]
    BY <1>1, <1>2, <1>3 DEF DriverClose, ReleaseIrq, DrvRecords
  <2>. QED
    BY <1>1, <1>3, <2>1 DEF DrvRecords
<1>4. CASE d.open # 1
  <2>1. DriverClose(d) = [d EXCEPT !.open = n]
    BY <1>1, <1>2, <1>4 DEF DriverClose, DrvRecords
  <2>. QED
    BY <1>1, <1>4, <2>1 DEF DrvRecords
<1>. QED
  BY <1>3, <1>4

-----------------------------------------------------------------------------
(* One lemma per action: it keeps the shape of the state, and what it does *)
(* to the calls, told field by field.                                      *)

Turns(t, pc, o, h) ==
  /\ thr'[t].pc = pc /\ thr'[t].obj = o /\ thr'[t].handle = h
  /\ \A u \in Threads \ {t} : thr'[u] = thr[u]

\* The call goes on with its arguments.
GoesOn(t, pc) ==
  /\ Turns(t, pc, thr[t].obj, thr[t].handle)
  /\ thr'[t].image = thr[t].image /\ thr'[t].part = thr[t].part

LEMMA IdleFacts ==
  /\ Idle \in CallRecords /\ Idle.pc = "idle" /\ Idle.obj = 0 /\ Idle.handle = 0 /\ ~ Idle.second
  /\ Idle.reopen = FALSE /\ Idle.failed = FALSE
<1>1. 0 \in 0 .. MaxOpens
  BY MmdAssumption
<1>. QED
  BY <1>1 DEF Idle, CallRecords, CallFields, PCs, InCall, Programming

LEMMA ObjsRange == /\ \A n : n \in Objs <=> n \in 0 .. MaxOpens /\ n # 0
                   /\ Objs \subseteq Int
BY MmdAssumption DEF Objs

LEMMA CallTypes ==
  ASSUME NEW c \in CallRecords
  PROVE  /\ c \in CallFields /\ c.pc \in PCs /\ c.obj \in 0 .. MaxOpens /\ c.handle \in 0 .. MaxOpens
         /\ c.failed \in BOOLEAN /\ c.second \in BOOLEAN /\ c.reopen \in BOOLEAN
         /\ c.pc \in Programming => c.image \in Images /\ c.part \in Regions
         /\ c.pc \in InCall \cup {"built", "signalled"} <=> c.obj # 0
         /\ c.pc \in InCall <=> c.handle # 0
         /\ c.obj # 0 => c.obj \in Objs
         /\ c.handle # 0 => c.handle \in Objs
BY ObjsRange DEF CallRecords, CallFields

LEMMA CallUpdate ==
  ASSUME TypeInv, NEW t \in Threads, NEW e \in CallRecords, thr' = [thr EXCEPT ![t] = e]
  PROVE  /\ thr' \in [Threads -> CallRecords] /\ thr'[t] = e
         /\ \A u \in Threads \ {t} : thr'[u] = thr[u]
BY DEF TypeInv

LEMMA PcUpdate ==
  ASSUME TypeInv, NEW t \in Threads, NEW pc \in PCs, Goto(t, pc),
         pc \in Programming => thr[t].pc \in Programming,
         pc \in InCall \cup {"built", "signalled"} <=> thr[t].pc \in InCall \cup {"built", "signalled"},
         pc \in InCall <=> thr[t].pc \in InCall
  PROVE  /\ thr' \in [Threads -> CallRecords]
         /\ GoesOn(t, pc) /\ thr'[t].second = thr[t].second /\ thr'[t].reopen = thr[t].reopen
         /\ thr'[t].failed = thr[t].failed
<1>. DEFINE e == [thr[t] EXCEPT !.pc = pc]
<1>1. thr[t] \in CallRecords
  BY DEF TypeInv
<1>2. e \in CallRecords
  BY <1>1, CallTypes DEF CallRecords, CallFields
<1>3. thr' = [thr EXCEPT ![t] = e]
  BY DEF Goto
<1>4. /\ e.pc = pc /\ e.obj = thr[t].obj /\ e.handle = thr[t].handle /\ e.image = thr[t].image
      /\ e.part = thr[t].part /\ e.second = thr[t].second /\ e.reopen = thr[t].reopen
      /\ e.failed = thr[t].failed
  BY <1>1 DEF CallRecords, CallFields
<1>. HIDE DEF e
<1>. QED
  BY <1>2, <1>3, <1>4, CallUpdate DEF GoesOn, Turns

LEMMA TestsAreBoolean == Tests \subseteq BOOLEAN
<1>1. \A s \in Tests : \E v \in VersionIdTest, u \in WaitForUniphy : s = (v /\ u)
  BY DEF Tests
<1>2. \A v, u : (v /\ u) \in BOOLEAN
  OBVIOUS
<1>. QED
  BY <1>1, <1>2, Zenon

LEMMA OpenNumberStep ==
  ASSUME TypeInv, NEW t \in Threads, OpenNumber(t)
  PROVE  /\ TypeInv'
         /\ thr[t].pc \in {"idle", "reopen"} /\ Turns(t, "numbered", 0, 0)
<1>1. uid' \in 0 .. MaxOpens
  BY MmdAssumption DEF OpenNumber, TypeInv
<1>2. thr[t].pc \in {"idle", "reopen"} /\ Goto(t, "numbered")
  BY DEF OpenNumber, At
<1>3. thr[t].obj = 0 /\ thr[t].handle = 0
  BY <1>2, CallTypes DEF TypeInv, InCall, Programming
<1>4. thr' \in [Threads -> CallRecords] /\ GoesOn(t, "numbered")
  BY <1>2, PcUpdate DEF PCs, InCall, Programming
<1>. QED
  BY <1>1, <1>2, <1>3, <1>4 DEF OpenNumber, TypeInv, GoesOn, Turns

LEMMA OpenConstructStep ==
  ASSUME TypeInv, NEW t \in Threads, OpenConstruct(t)
  PROVE  /\ TypeInv'
         /\ thr[t].pc = "numbered" /\ thr[t].obj = 0 /\ thr[t].handle = 0
         /\ \E o \in Objs, sound \in BOOLEAN :
              /\ objs[o].state = "unbuilt"
              /\ objs' = [objs EXCEPT ![o] = objs'[o]]
              /\ objs'[o].state = "live" /\ objs'[o].handle = uid /\ objs'[o].init = sound
              /\ ~ objs'[o].fn /\ ~ objs'[o].prog
              /\ Turns(t, IF sound THEN "built" ELSE "signalled", o, 0)
<1>1. thr[t].pc = "numbered" /\ thr[t].obj = 0 /\ thr[t].handle = 0 /\ thr[t] \in CallFields
  BY CallTypes DEF OpenConstruct, At, TypeInv, InCall, Programming
<1>2. PICK o \in Objs, sound \in BOOLEAN :
        /\ objs[o].state = "unbuilt"
        /\ objs' = [objs EXCEPT ![o] = [Unbuilt EXCEPT !.state = "live", !.handle = uid, !.init = sound]]
        /\ thr' = [thr EXCEPT ![t].obj = o, ![t].pc = IF objs'[o].init THEN "built" ELSE "signalled"]
  BY TestsAreBoolean DEF OpenConstruct
<1>. DEFINE new == [Unbuilt EXCEPT !.state = "live", !.handle = uid, !.init = sound]
            pc == IF sound THEN "built" ELSE "signalled"
            e == [thr[t] EXCEPT !.obj = o, !.pc = pc]
<1>3. /\ new \in ObjRecords /\ new.state = "live" /\ new.handle = uid /\ new.init = sound
      /\ ~ new.fn /\ ~ new.prog
  BY DEF TypeInv, Unbuilt, ObjRecords, ObjStates
<1>4. objs'[o] = new /\ objs' \in [Objs -> ObjRecords] /\ objs' = [objs EXCEPT ![o] = objs'[o]]
  BY <1>2, <1>3 DEF TypeInv
<1>5. o # 0 /\ o \in 0 .. MaxOpens
  BY ObjsRange
<1>6. e \in CallRecords /\ e.pc = pc /\ e.obj = o /\ e.handle = 0
  BY <1>1, <1>5 DEF CallRecords, CallFields, PCs, InCall, Programming
<1>7. thr' = [thr EXCEPT ![t] = e]
  BY <1>2, <1>3, <1>4 DEF TypeInv
<1>. HIDE DEF new, e
<1>8. thr' \in [Threads -> CallRecords] /\ Turns(t, pc, o, 0)
  BY <1>6, <1>7, CallUpdate DEF Turns
<1>9. drv' \in DrvRecords
  BY DriverOpenFacts DEF OpenConstruct, TypeInv
<1>10. hw' \in HwRecords
  BY DriverOpenFacts, UnmaskFacts DEF OpenConstruct, BoardOpen, TypeInv
<1>11. TypeInv'
  BY <1>4, <1>8, <1>9, <1>10 DEF OpenConstruct, TypeInv
<1>. QED
  BY <1>1, <1>2, <1>3, <1>4, <1>8, <1>11

LEMMA OpenSignalStep ==
  ASSUME TypeInv, NEW t \in Threads, OpenSignal(t)
  PROVE  /\ TypeInv'
         /\ thr[t].pc = "built" /\ thr[t].obj \in Objs /\ thr[t].handle = 0
         /\ Turns(t, "signalled", thr[t].obj, 0)
         /\ drv'.open = drv.open /\ drv'.task = t /\ drv'.requested = drv.requested
         /\ drv'.payload = objs[thr[t].obj].handle
<1>1. thr[t].pc = "built" /\ thr[t].obj \in Objs /\ thr[t].handle = 0
  BY CallTypes DEF OpenSignal, At, TypeInv, InCall, Programming
<1>2. thr' \in [Threads -> CallRecords] /\ Turns(t, "signalled", thr[t].obj, 0)
  BY <1>1, PcUpdate DEF OpenSignal, PCs, InCall, Programming, GoesOn, Turns
<1>3. objs[thr[t].obj].handle \in 0 .. MaxOpens
  BY <1>1 DEF TypeInv, ObjRecords
<1>4. /\ drv' \in DrvRecords /\ drv'.open = drv.open /\ drv'.task = t /\ drv'.requested = drv.requested
      /\ drv'.payload = objs[thr[t].obj].handle
  <2>. DEFINE d == Used(drv, t)
  <2>1. d \in DrvRecords /\ d.open = drv.open /\ d.task = t /\ d.requested = drv.requested
    BY UsedFacts DEF TypeInv
  <2>2. drv' = [d EXCEPT !.payload = objs[thr[t].obj].handle]
    BY DEF OpenSignal
  <2>. HIDE DEF d
  <2>. QED
    BY <1>3, <2>1, <2>2 DEF DrvRecords
<1>. QED
  BY <1>1, <1>2, <1>4 DEF OpenSignal, TypeInv

LEMMA OpenRecordStep ==
  ASSUME TypeInv, NEW t \in Threads, OpenRecord(t)
  PROVE  /\ TypeInv'
         /\ thr[t].pc = "signalled" /\ thr[t].obj \in Objs /\ thr[t].handle = 0
         /\ Turns(t, "idle", 0, 0) /\ ~ thr'[t].second
<1>1. thr[t].pc = "signalled" /\ thr[t].obj \in Objs /\ thr[t].handle = 0
  BY CallTypes DEF OpenRecord, At, TypeInv, InCall, Programming
<1>2. thr' \in [Threads -> CallRecords] /\ Turns(t, "idle", 0, 0) /\ ~ thr'[t].second
  BY IdleFacts, CallUpdate DEF OpenRecord, Turns
<1>3. map' \in [Objs -> 0 .. MaxOpens]
  BY <1>1, ObjsRange DEF OpenRecord, TypeInv
<1>. QED
  BY <1>1, <1>2, <1>3 DEF OpenRecord, TypeInv

LEMMA CloseStep ==
  ASSUME TypeInv, NEW t \in Threads, NEW h \in Mapped, Close(t, h)
  PROVE  /\ TypeInv'
         /\ h \in Objs /\ map[h] # 0 /\ map[h] \in Objs /\ thr[t].pc = "idle" /\ hand[t].pc = "none"
         /\ \A u \in Threads \ {t} : thr[u].handle # h
         /\ Turns(t, "delete", map[h], h)
<1>1. h \in Objs /\ map[h] # 0 /\ map[h] \in Objs
  BY ObjsRange DEF Mapped, TypeInv
<1>. DEFINE e == [Idle EXCEPT !.pc = "delete", !.obj = map[h], !.handle = h]
<1>2. e \in CallRecords /\ e.pc = "delete" /\ e.obj = map[h] /\ e.handle = h
  BY <1>1, IdleFacts, ObjsRange DEF CallRecords, CallFields, PCs, InCall, Programming
<1>3. thr' = [thr EXCEPT ![t] = e]
  BY DEF Close
<1>. HIDE DEF e
<1>4. thr' \in [Threads -> CallRecords] /\ Turns(t, "delete", map[h], h)
  BY <1>2, <1>3, CallUpdate DEF Turns
<1>. QED
  BY <1>1, <1>4 DEF Close, TypeInv, At, Steps, Mine

LEMMA DeletePartsStep ==
  ASSUME TypeInv, NEW t \in Threads, DeleteParts(t)
  PROVE  /\ TypeInv'
         /\ thr[t].pc = "delete" /\ thr[t].obj \in Objs /\ thr[t].handle \in Objs
         /\ objs' = [objs EXCEPT ![thr[t].obj] = objs'[thr[t].obj]]
         /\ objs'[thr[t].obj].state = "dying"
         /\ objs'[thr[t].obj].handle = objs[thr[t].obj].handle
         /\ objs'[thr[t].obj].init = objs[thr[t].obj].init
         /\ objs'[thr[t].obj].fn = objs[thr[t].obj].fn
         /\ drv'.open = drv.open /\ drv'.task = t /\ drv'.requested = drv.requested /\ drv'.payload = drv.payload
         /\ GoesOn(t, "closing")
<1>1. thr[t].pc = "delete" /\ thr[t].obj \in Objs /\ thr[t].handle \in Objs
  BY CallTypes DEF DeleteParts, At, TypeInv, InCall
<1>2. thr' \in [Threads -> CallRecords] /\ GoesOn(t, "closing")
  BY <1>1, PcUpdate DEF DeleteParts, PCs, InCall, Programming
<1>3. PICK o \in Objs : o = thr[t].obj
  BY <1>1
<1>4. objs' = [objs EXCEPT ![o] = [objs[o] EXCEPT !.state = "dying"]]
  BY <1>3 DEF DeleteParts
<1>5. /\ objs' \in [Objs -> ObjRecords] /\ objs' = [objs EXCEPT ![o] = objs'[o]]
      /\ objs'[o].state = "dying" /\ objs'[o].handle = objs[o].handle
      /\ objs'[o].init = objs[o].init /\ objs'[o].fn = objs[o].fn
  BY <1>4 DEF TypeInv, ObjRecords, ObjStates
<1>6. /\ drv' \in DrvRecords /\ drv'.open = drv.open /\ drv'.task = t
      /\ drv'.requested = drv.requested /\ drv'.payload = drv.payload
  BY UsedFacts DEF DeleteParts, TypeInv
<1>. QED
  BY <1>1, <1>2, <1>3, <1>5, <1>6 DEF DeleteParts, TypeInv

LEMMA DeleteDoneStep ==
  ASSUME TypeInv, NEW t \in Threads, DeleteDone(t)
  PROVE  /\ TypeInv'
         /\ thr[t].pc = "closing" /\ thr[t].obj \in Objs /\ thr[t].handle \in Objs
         /\ objs' = [objs EXCEPT ![thr[t].obj] = objs'[thr[t].obj]]
         /\ objs'[thr[t].obj].state = "freed"
         /\ objs'[thr[t].obj].handle = objs[thr[t].obj].handle
         /\ ~ objs'[thr[t].obj].init /\ ~ objs'[thr[t].obj].fn
         /\ GoesOn(t, "discard")
<1>1. thr[t].pc = "closing" /\ thr[t].obj \in Objs /\ thr[t].handle \in Objs
  BY CallTypes DEF DeleteDone, At, TypeInv, InCall
<1>2. thr' \in [Threads -> CallRecords] /\ GoesOn(t, "discard")
  BY <1>1, PcUpdate DEF DeleteDone, PCs, InCall, Programming
<1>3. PICK o \in Objs : o = thr[t].obj
  BY <1>1
<1>4. objs' = [objs EXCEPT ![o] = [objs[o] EXCEPT !.state = "freed", !.init = FALSE, !.fn = FALSE]]
  BY <1>3 DEF DeleteDone, TypeInv
<1>5. /\ objs' \in [Objs -> ObjRecords] /\ objs' = [objs EXCEPT ![o] = objs'[o]]
      /\ objs'[o].state = "freed" /\ objs'[o].handle = objs[o].handle
      /\ ~ objs'[o].init /\ ~ objs'[o].fn
  BY <1>4 DEF TypeInv, ObjRecords, ObjStates
<1>6. drv' \in DrvRecords
  BY DriverCloseFacts DEF DeleteDone, TypeInv
<1>7. hw' \in HwRecords
  BY MaskFacts DEF DeleteDone, BoardClose, TypeInv
<1>. QED
  BY <1>1, <1>2, <1>3, <1>5, <1>6, <1>7 DEF DeleteDone, TypeInv

LEMMA DiscardStep ==
  ASSUME TypeInv, NEW t \in Threads, Discard(t)
  PROVE  /\ TypeInv'
         /\ thr[t].pc = "discard" /\ thr[t].obj \in Objs /\ thr[t].handle \in Objs
         /\ \E pc \in {"idle", "reopen"} : Turns(t, pc, 0, 0)
<1>1. thr[t].pc = "discard" /\ thr[t].obj \in Objs /\ thr[t].handle \in Objs
  BY CallTypes DEF Discard, At, TypeInv, InCall
<1>2. PICK pc \in {"idle", "reopen"} : thr' = [thr EXCEPT ![t] = [Idle EXCEPT !.pc = pc]]
  BY DEF Discard
<1>. DEFINE e == [Idle EXCEPT !.pc = pc]
<1>3. e \in CallRecords /\ e.pc = pc /\ e.obj = 0 /\ e.handle = 0
  BY IdleFacts DEF CallRecords, CallFields, PCs, InCall, Programming
<1>4. thr' = [thr EXCEPT ![t] = e]
  BY <1>2
<1>. HIDE DEF e
<1>5. thr' \in [Threads -> CallRecords] /\ Turns(t, pc, 0, 0)
  BY <1>3, <1>4, CallUpdate DEF Turns
<1>6. map' \in [Objs -> 0 .. MaxOpens]
  <2>1. 0 \in 0 .. MaxOpens
    BY MmdAssumption
  <2>. QED
    BY <2>1 DEF Discard, TypeInv
<1>. QED
  BY <1>1, <1>5, <1>6 DEF Discard, TypeInv

LEMMA ReprogramStep ==
  ASSUME TypeInv, NEW t \in Threads, NEW h \in Mapped, NEW i \in Images, NEW r \in Regions,
         Reprogram(t, h, i, r)
  PROVE  /\ TypeInv'
         /\ h \in Objs /\ map[h] # 0 /\ map[h] \in Objs /\ thr[t].pc = "idle" /\ hand[t].pc = "none"
         /\ \A u \in Threads \ {t} : thr[u].handle # h
         /\ objs' = [objs EXCEPT ![map[h]] = objs'[map[h]]]
         /\ objs'[map[h]].prog
         /\ objs'[map[h]].state = objs[map[h]].state /\ objs'[map[h]].handle = objs[map[h]].handle
         /\ objs'[map[h]].init = objs[map[h]].init /\ objs'[map[h]].fn = objs[map[h]].fn
         /\ Turns(t, "pr", map[h], h) /\ ~ thr'[t].second
<1>1. h \in Objs /\ map[h] # 0 /\ map[h] \in Objs
  BY ObjsRange DEF Mapped, TypeInv
<1>. DEFINE e == [Idle EXCEPT !.pc = "pr", !.obj = map[h], !.handle = h, !.image = i, !.part = r]
<1>2. e \in CallRecords /\ e.pc = "pr" /\ e.obj = map[h] /\ e.handle = h /\ ~ e.second
  BY <1>1, IdleFacts, ObjsRange DEF CallRecords, CallFields, PCs, InCall, Programming
<1>3. thr' = [thr EXCEPT ![t] = e]
  BY DEF Reprogram
<1>. HIDE DEF e
<1>4. thr' \in [Threads -> CallRecords] /\ Turns(t, "pr", map[h], h) /\ ~ thr'[t].second
  BY <1>2, <1>3, CallUpdate DEF Turns
<1>5. PICK o \in Objs : o = map[h]
  BY <1>1
<1>6. objs' = [objs EXCEPT ![o] = [objs[o] EXCEPT !.prog = TRUE]]
  BY <1>5 DEF Reprogram
<1>7. /\ objs' \in [Objs -> ObjRecords] /\ objs' = [objs EXCEPT ![o] = objs'[o]]
      /\ objs'[o].prog /\ objs'[o].state = objs[o].state /\ objs'[o].handle = objs[o].handle
      /\ objs'[o].init = objs[o].init /\ objs'[o].fn = objs[o].fn
  BY <1>6 DEF TypeInv, ObjRecords
<1>. QED
  BY <1>1, <1>4, <1>5, <1>7 DEF Reprogram, TypeInv, At, Steps, Mine

LEMMA PrBeginStep ==
  ASSUME TypeInv, NEW t \in Threads, PrBegin(t)
  PROVE  /\ TypeInv'
         /\ thr[t].pc = "pr" /\ thr[t].image \in Images
         /\ ~ SkipVersion => Trunk[hw.quartus] = Trunk[thr[t].image.quartus]
         /\ drv'.open = drv.open /\ drv'.task = t /\ drv'.requested = drv.requested /\ drv'.payload = drv.payload
         /\ GoesOn(t, "reconfiguring") /\ thr'[t].second = thr[t].second
<1>1. /\ thr[t].pc = "pr" /\ thr[t].image \in Images
      /\ ~ SkipVersion => Trunk[hw.quartus] = Trunk[thr[t].image.quartus]
  BY CallTypes DEF PrBegin, At, Reconfigures, QuartusVerTest, TypeInv, InCall, Programming
<1>2. /\ thr' \in [Threads -> CallRecords] /\ GoesOn(t, "reconfiguring")
      /\ thr'[t].second = thr[t].second
  BY <1>1, PcUpdate DEF PrBegin, PCs, InCall, Programming
<1>3. /\ drv' \in DrvRecords /\ drv'.open = drv.open /\ drv'.task = t
      /\ drv'.requested = drv.requested /\ drv'.payload = drv.payload
  <2>. DEFINE d == Used(drv, t)
  <2>1. /\ d \in DrvRecords /\ d.open = drv.open /\ d.task = t /\ d.requested = drv.requested
        /\ d.payload = drv.payload
    BY UsedFacts DEF TypeInv
  <2>2. drv' = [d EXCEPT !.pr = TRUE]
    BY DEF PrBegin
  <2>. HIDE DEF d
  <2>. QED
    BY <2>1, <2>2 DEF DrvRecords
<1>. QED
  BY <1>1, <1>2, <1>3 DEF PrBegin, TypeInv

LEMMA PrEndStep ==
  ASSUME TypeInv, NEW t \in Threads, PrEnd(t)
  PROVE  /\ TypeInv'
         /\ thr[t].pc = "reconfiguring"
         /\ drv'.open = drv.open /\ drv'.task = drv.task /\ drv'.requested = drv.requested
         /\ drv'.payload = drv.payload
         /\ hw'.enable = hw.enable /\ hw'.msi = hw.msi /\ hw'.flashing = hw.flashing
         /\ hw'.made = hw.made /\ hw'.quartus = hw.quartus
         /\ hw'.running = hw.running \ {thr[t].part} /\ hw'.status = hw.status \ {thr[t].part}
         /\ GoesOn(t, "programmed") /\ thr'[t].second = thr[t].second
<1>1. thr[t].pc = "reconfiguring" /\ thr[t].image \in Images /\ thr[t].part \in Regions
  BY CallTypes DEF PrEnd, At, TypeInv, Programming
<1>2. PICK good \in BOOLEAN :
        /\ hw' = [hw EXCEPT !.core[thr[t].part] = IF good THEN thr[t].image.core ELSE "none",
                            !.running = @ \ {thr[t].part}, !.status = @ \ {thr[t].part}]
        /\ thr' = [thr EXCEPT ![t].pc = "programmed", ![t].failed = ~ good]
  BY DEF PrEnd
<1>3. /\ thr' \in [Threads -> CallRecords] /\ GoesOn(t, "programmed")
      /\ thr'[t].second = thr[t].second
  <2>. DEFINE e == [thr[t] EXCEPT !.pc = "programmed", !.failed = ~ good]
  <2>1. thr[t] \in CallRecords
    BY DEF TypeInv
  <2>2. e \in CallRecords
    BY <1>1, <2>1, CallTypes DEF CallRecords, CallFields, PCs, InCall, Programming
  <2>3. /\ e.pc = "programmed" /\ e.obj = thr[t].obj /\ e.handle = thr[t].handle
        /\ e.image = thr[t].image /\ e.part = thr[t].part /\ e.second = thr[t].second
    BY <2>1 DEF CallRecords, CallFields
  <2>4. thr' = [thr EXCEPT ![t] = e]
    BY <1>2 DEF TypeInv
  <2>. HIDE DEF e
  <2>. QED
    BY <2>2, <2>3, <2>4, CallUpdate DEF GoesOn, Turns
<1>4. /\ hw' \in HwRecords
      /\ hw'.enable = hw.enable /\ hw'.msi = hw.msi /\ hw'.flashing = hw.flashing
      /\ hw'.made = hw.made /\ hw'.quartus = hw.quartus
      /\ hw'.running = hw.running \ {thr[t].part} /\ hw'.status = hw.status \ {thr[t].part}
  <2>1. PICK core \in Cores : core = IF good THEN thr[t].image.core ELSE "none"
    BY <1>1 DEF Cores
  <2>2. PICK all \in [Regions -> Cores] : all = [hw.core EXCEPT ![thr[t].part] = core]
    BY <1>1 DEF TypeInv, HwRecords, HwFields
  <2>3. hw' = [hw EXCEPT !.core = all, !.running = hw.running \ {thr[t].part},
                         !.status = hw.status \ {thr[t].part}]
    BY <1>2, <2>1, <2>2 DEF TypeInv, HwRecords, HwFields
  <2>. QED
    BY <2>3 DEF TypeInv, HwRecords, HwFields
<1>5. /\ drv' \in DrvRecords /\ drv'.open = drv.open /\ drv'.task = drv.task
      /\ drv'.requested = drv.requested /\ drv'.payload = drv.payload
  BY DEF PrEnd, TypeInv, DrvRecords
<1>. QED
  BY <1>1, <1>3, <1>4, <1>5 DEF PrEnd, TypeInv

LEMMA PrNotStep ==
  ASSUME TypeInv, NEW t \in Threads, PrNot(t)
  PROVE  /\ TypeInv'
         /\ thr[t].pc = "pr" /\ thr[t].obj \in Objs
         /\ drv'.open = drv.open /\ drv'.task \in {drv.task, t} /\ drv'.requested = drv.requested
         /\ drv'.payload = drv.payload
         /\ \E pc \in {"save", "programmed"} :
              GoesOn(t, pc) /\ thr'[t].second = thr[t].second /\ (pc = "save" => ~ thr[t].second)
<1>1. thr[t].pc = "pr" /\ thr[t].obj \in Objs
  BY CallTypes DEF PrNot, At, TypeInv, InCall, Programming
<1>2. thr[t] \in CallRecords
  BY DEF TypeInv
<1>3. PICK pc \in {"save", "programmed"}, failed \in BOOLEAN :
        /\ thr' = [thr EXCEPT ![t].pc = pc, ![t].failed = failed]
        /\ pc = "save" => ~ thr[t].second
  BY DEF PrNot, FallsBack
<1>4. /\ thr' \in [Threads -> CallRecords] /\ GoesOn(t, pc) /\ thr'[t].second = thr[t].second
  <2>. DEFINE e == [thr[t] EXCEPT !.pc = pc, !.failed = failed]
  <2>1. e \in CallRecords
    BY <1>1, <1>2, CallTypes DEF CallRecords, CallFields, PCs, InCall, Programming
  <2>2. /\ e.pc = pc /\ e.obj = thr[t].obj /\ e.handle = thr[t].handle
        /\ e.image = thr[t].image /\ e.part = thr[t].part /\ e.second = thr[t].second
    BY <1>2 DEF CallRecords, CallFields
  <2>3. thr' = [thr EXCEPT ![t] = e]
    BY <1>3 DEF TypeInv
  <2>. HIDE DEF e
  <2>. QED
    BY <2>1, <2>2, <2>3, CallUpdate DEF GoesOn, Turns
<1>5. /\ drv' \in DrvRecords /\ drv'.open = drv.open /\ drv'.task \in {drv.task, t}
      /\ drv'.requested = drv.requested /\ drv'.payload = drv.payload
  BY UsedFacts DEF PrNot, TypeInv
<1>. QED
  BY <1>1, <1>3, <1>4, <1>5 DEF PrNot, TypeInv

LEMMA SaveControlStep ==
  ASSUME TypeInv, NEW t \in Threads, SaveControl(t)
  PROVE  /\ TypeInv'
         /\ thr[t].pc = "save" /\ thr[t].obj \in Objs
         /\ drv'.open = drv.open /\ drv'.task = t /\ ~ drv'.requested /\ drv'.payload = drv.payload
         /\ ~ hw'.enable /\ ~ hw'.msi
         /\ hw'.made = hw.made /\ hw'.quartus = hw.quartus
         /\ hw'.running = hw.running /\ hw'.status = hw.status
         /\ \E pc \in {"jtag", "delete"} : GoesOn(t, pc) /\ (hw'.flashing => pc = "jtag")
<1>1. thr[t].pc = "save" /\ thr[t].obj \in Objs
  BY CallTypes DEF SaveControl, At, TypeInv, InCall, Programming
<1>2. thr[t] \in CallRecords
  BY DEF TypeInv
<1>3. PICK wrote \in BOOLEAN :
        /\ hw' = [MaskIrq(hw) EXCEPT !.flashing = wrote]
        /\ thr' = [thr EXCEPT ![t].pc = IF wrote THEN "jtag" ELSE "delete", ![t].reopen = TRUE]
  BY DEF SaveControl
<1>4. PICK pc \in {"jtag", "delete"} : pc = IF wrote THEN "jtag" ELSE "delete"
  OBVIOUS
<1>5. thr' \in [Threads -> CallRecords] /\ GoesOn(t, pc)
  <2>. DEFINE e == [thr[t] EXCEPT !.pc = pc, !.reopen = TRUE]
  <2>1. e \in CallRecords
    BY <1>1, <1>2, CallTypes DEF CallRecords, CallFields, PCs, InCall, Programming
  <2>2. /\ e.pc = pc /\ e.obj = thr[t].obj /\ e.handle = thr[t].handle
        /\ e.image = thr[t].image /\ e.part = thr[t].part
    BY <1>2 DEF CallRecords, CallFields
  <2>3. thr' = [thr EXCEPT ![t] = e]
    BY <1>3, <1>4 DEF TypeInv
  <2>. HIDE DEF e
  <2>. QED
    BY <2>1, <2>2, <2>3, CallUpdate DEF GoesOn, Turns
<1>6. /\ drv' \in DrvRecords /\ drv'.open = drv.open /\ drv'.task = t
      /\ ~ drv'.requested /\ drv'.payload = drv.payload
  <2>1. PICK d \in DrvRecords : /\ d = Used(drv, t) /\ d.open = drv.open /\ d.task = t
                                /\ d.payload = drv.payload
    BY UsedFacts DEF TypeInv
  <2>2. drv' = ReleaseIrq(d)
    BY <2>1 DEF SaveControl
  <2>. QED
    BY <2>1, <2>2, ReleaseFacts
<1>7. /\ hw' \in HwRecords /\ ~ hw'.enable /\ ~ hw'.msi /\ hw'.flashing = wrote
      /\ hw'.made = hw.made /\ hw'.quartus = hw.quartus
      /\ hw'.running = hw.running /\ hw'.status = hw.status
  <2>. DEFINE b == MaskIrq(hw)
  <2>1. /\ b \in HwRecords /\ ~ b.enable /\ ~ b.msi /\ b.made = hw.made /\ b.quartus = hw.quartus
        /\ b.running = hw.running /\ b.status = hw.status
    BY MaskFacts DEF TypeInv
  <2>2. hw' = [b EXCEPT !.flashing = wrote]
    BY <1>3
  <2>. HIDE DEF b
  <2>. QED
    BY <2>1, <2>2 DEF HwRecords, HwFields
<1>. QED
  BY <1>1, <1>4, <1>5, <1>6, <1>7 DEF SaveControl, TypeInv

LEMMA JtagStep ==
  ASSUME TypeInv, NEW t \in Threads, Jtag(t)
  PROVE  /\ TypeInv'
         /\ thr[t].pc = "jtag" /\ thr[t].obj \in Objs
         /\ hw'.enable = hw.enable /\ hw'.msi = hw.msi /\ ~ hw'.flashing
         /\ hw'.quartus = "blank" \/ (hw'.quartus = hw.quartus /\ hw'.made = hw.made)
         /\ hw'.running \subseteq hw.running /\ hw'.status \subseteq hw.status
         /\ GoesOn(t, "load")
<1>1. thr[t].pc = "jtag" /\ thr[t].obj \in Objs /\ thr[t].image \in Images
  BY CallTypes DEF Jtag, At, TypeInv, InCall, Programming
<1>2. thr[t] \in CallRecords
  BY DEF TypeInv
<1>3. PICK outcome \in {"good", "untouched", "dead"} :
       LET i == thr[t].image
           core == IF outcome = "dead" \/ i.fast THEN "none" ELSE i.core
       IN /\ hw' = IF outcome = "untouched" THEN [hw EXCEPT !.flashing = FALSE]
                   ELSE [hw EXCEPT !.flashing = FALSE, !.base = IF outcome = "dead" THEN "dead" ELSE i.base,
                                   !.made = i.quartus, !.quartus = "blank",
                                   !.core = [r \in Regions |-> core], !.running = {}, !.status = {}]
          /\ thr' = [thr EXCEPT ![t].pc = "load", ![t].failed = outcome # "good"]
  BY DEF Jtag
<1>4. thr' \in [Threads -> CallRecords] /\ GoesOn(t, "load")
  <2>1. PICK failed \in BOOLEAN : failed = (outcome # "good")
    OBVIOUS
  <2>. DEFINE e == [thr[t] EXCEPT !.pc = "load", !.failed = failed]
  <2>2. e \in CallRecords
    BY <1>1, <1>2, CallTypes DEF CallRecords, CallFields, PCs, InCall, Programming
  <2>3. /\ e.pc = "load" /\ e.obj = thr[t].obj /\ e.handle = thr[t].handle
        /\ e.image = thr[t].image /\ e.part = thr[t].part
    BY <1>2 DEF CallRecords, CallFields
  <2>4. thr' = [thr EXCEPT ![t] = e]
    BY <1>3, <2>1 DEF TypeInv
  <2>. HIDE DEF e
  <2>. QED
    BY <2>2, <2>3, <2>4, CallUpdate DEF GoesOn, Turns
<1>5. /\ hw' \in HwRecords
      /\ hw'.enable = hw.enable /\ hw'.msi = hw.msi /\ ~ hw'.flashing
      /\ hw'.quartus = "blank" \/ (hw'.quartus = hw.quartus /\ hw'.made = hw.made)
      /\ hw'.running \subseteq hw.running /\ hw'.status \subseteq hw.status
  <2>1. CASE outcome = "untouched"
    <3>1. hw' = [hw EXCEPT !.flashing = FALSE]
      BY <1>3, <2>1
    <3>. QED
      BY <3>1 DEF TypeInv, HwRecords, HwFields
  <2>2. CASE outcome # "untouched"
    <3>1. PICK core \in Cores : core = IF outcome = "dead" \/ thr[t].image.fast THEN "none" ELSE thr[t].image.core
      BY <1>1 DEF Cores
    <3>2. PICK base \in Bases : base = IF outcome = "dead" THEN "dead" ELSE thr[t].image.base
      BY <1>1 DEF Bases
    <3>3. PICK made \in Versions : made = thr[t].image.quartus
      BY <1>1 DEF Versions
    <3>4. PICK all \in [Regions -> Cores] : all = [r \in Regions |-> core]
      OBVIOUS
    <3>5. hw' = [hw EXCEPT !.flashing = FALSE, !.base = base, !.made = made, !.quartus = "blank",
                           !.core = all, !.running = {}, !.status = {}]
      BY <1>3, <2>2, <3>1, <3>2, <3>3, <3>4
    <3>. QED
      BY <3>5 DEF TypeInv, HwRecords, HwFields
  <2>. QED
    BY <2>1, <2>2
<1>. QED
  BY <1>1, <1>4, <1>5 DEF Jtag, TypeInv

LEMMA LoadControlStep ==
  ASSUME TypeInv, NEW t \in Threads, LoadControl(t)
  PROVE  /\ TypeInv'
         /\ thr[t].pc = "load" /\ thr[t].obj \in Objs
         /\ drv'.open = drv.open /\ drv'.task = t /\ drv'.payload = drv.payload
         /\ ~ hw'.enable /\ hw'.msi = hw.msi /\ hw'.flashing = hw.flashing
         /\ hw'.made = hw.made
         /\ hw'.quartus = IF Labels(t) THEN thr[t].image.quartus ELSE hw.quartus
         /\ hw'.running = hw.running /\ hw'.status = hw.status
         /\ \E pc \in {"pr", "programmed"} : GoesOn(t, pc) /\ thr'[t].second
<1>1. thr[t].pc = "load" /\ thr[t].obj \in Objs /\ thr[t].image \in Images
  BY CallTypes DEF LoadControl, At, TypeInv, InCall, Programming
<1>2. thr[t] \in CallRecords /\ thr[t].failed \in BOOLEAN
  BY CallTypes DEF TypeInv
<1>3. PICK sound \in BOOLEAN :
        thr' = [thr EXCEPT ![t].pc = IF thr[t].image.fast THEN "pr" ELSE "programmed",
                           ![t].failed = @ \/ ~ sound, ![t].second = TRUE, ![t].reopen = FALSE]
  BY TestsAreBoolean DEF LoadControl
<1>4. PICK pc \in {"pr", "programmed"} : pc = IF thr[t].image.fast THEN "pr" ELSE "programmed"
  OBVIOUS
<1>5. thr' \in [Threads -> CallRecords] /\ GoesOn(t, pc) /\ thr'[t].second
  <2>1. PICK failed \in BOOLEAN : failed = (thr[t].failed \/ ~ sound)
    OBVIOUS
  <2>. DEFINE e == [thr[t] EXCEPT !.pc = pc, !.failed = failed, !.second = TRUE, !.reopen = FALSE]
  <2>2. e \in CallRecords
    BY <1>1, <1>2, CallTypes DEF CallRecords, CallFields, PCs, InCall, Programming
  <2>3. /\ e.pc = pc /\ e.obj = thr[t].obj /\ e.handle = thr[t].handle
        /\ e.image = thr[t].image /\ e.part = thr[t].part /\ e.second
    BY <1>2 DEF CallRecords, CallFields
  <2>4. thr' = [thr EXCEPT ![t] = e]
    BY <1>3, <1>4, <2>1 DEF TypeInv
  <2>. HIDE DEF e
  <2>. QED
    BY <2>2, <2>3, <2>4, CallUpdate DEF GoesOn, Turns
<1>6. /\ drv' \in DrvRecords /\ drv'.open = drv.open /\ drv'.task = t /\ drv'.payload = drv.payload
  <2>1. PICK d \in DrvRecords : /\ d = Used(drv, t) /\ d.open = drv.open /\ d.task = t
                                /\ d.payload = drv.payload
    BY UsedFacts DEF TypeInv
  <2>2. drv' = InitIrq(d)
    BY <2>1 DEF LoadControl
  <2>. QED
    BY <2>1, <2>2, InitIrqFacts
<1>7. /\ hw' \in HwRecords /\ ~ hw'.enable /\ hw'.msi = hw.msi /\ hw'.flashing = hw.flashing
      /\ hw'.made = hw.made
      /\ hw'.quartus = IF Labels(t) THEN thr[t].image.quartus ELSE hw.quartus
      /\ hw'.running = hw.running /\ hw'.status = hw.status
  <2>. DEFINE b == UnmaskIrq(hw, drv)
  <2>1. /\ b \in HwRecords /\ ~ b.enable /\ b.msi = hw.msi /\ b.flashing = hw.flashing
        /\ b.made = hw.made /\ b.quartus = hw.quartus
        /\ b.running = hw.running /\ b.status = hw.status
    BY UnmaskFacts DEF TypeInv
  <2>2. thr[t].image.quartus \in Versions
    BY <1>1 DEF Versions
  <2>3. hw' = IF Labels(t) THEN [b EXCEPT !.quartus = thr[t].image.quartus] ELSE b
    BY DEF LoadControl
  <2>. HIDE DEF b
  <2>. QED
    BY <2>1, <2>2, <2>3 DEF HwRecords, HwFields
<1>. QED
  BY <1>1, <1>5, <1>6, <1>7 DEF LoadControl, TypeInv

LEMMA ProgrammedStep ==
  ASSUME TypeInv, NEW t \in Threads, Programmed(t)
  PROVE  /\ TypeInv'
         /\ thr[t].pc = "programmed" /\ thr[t].obj \in Objs
         /\ objs' = [objs EXCEPT ![thr[t].obj] = objs'[thr[t].obj]]
         /\ objs'[thr[t].obj].state = objs[thr[t].obj].state
         /\ objs'[thr[t].obj].handle = objs[thr[t].obj].handle
         /\ objs'[thr[t].obj].init = objs[thr[t].obj].init
         /\ objs'[thr[t].obj].fn = objs[thr[t].obj].fn
         /\ thr[t].failed => Turns(t, "idle", 0, 0)
         /\ ~ thr[t].failed => GoesOn(t, "delete")
<1>1. thr[t].pc = "programmed" /\ thr[t].obj \in Objs
  BY CallTypes DEF Programmed, At, TypeInv, InCall
<1>2. thr[t] \in CallRecords
  BY DEF TypeInv
<1>3. PICK o \in Objs : o = thr[t].obj
  BY <1>1
<1>4. objs' = [objs EXCEPT ![o] = [objs[o] EXCEPT !.prog = FALSE]]
  BY <1>3 DEF Programmed
<1>5. /\ objs' \in [Objs -> ObjRecords] /\ objs' = [objs EXCEPT ![o] = objs'[o]]
      /\ objs'[o].state = objs[o].state /\ objs'[o].handle = objs[o].handle
      /\ objs'[o].init = objs[o].init /\ objs'[o].fn = objs[o].fn
  BY <1>4 DEF TypeInv, ObjRecords
<1>6. CASE thr[t].failed
  <2>1. thr' = [thr EXCEPT ![t] = Idle]
    BY <1>6 DEF Programmed
  <2>2. thr' \in [Threads -> CallRecords] /\ Turns(t, "idle", 0, 0)
    BY <2>1, IdleFacts, CallUpdate DEF Turns
  <2>. QED
    BY <1>1, <1>3, <1>5, <1>6, <2>2 DEF Programmed, TypeInv
<1>7. CASE ~ thr[t].failed
  <2>. DEFINE e == [thr[t] EXCEPT !.pc = "delete", !.reopen = TRUE]
  <2>1. e \in CallRecords
    BY <1>1, <1>2, CallTypes DEF CallRecords, CallFields, PCs, InCall, Programming
  <2>2. /\ e.pc = "delete" /\ e.obj = thr[t].obj /\ e.handle = thr[t].handle
        /\ e.image = thr[t].image /\ e.part = thr[t].part
    BY <1>2 DEF CallRecords, CallFields
  <2>3. thr' = [thr EXCEPT ![t] = e]
    BY <1>7 DEF Programmed, TypeInv
  <2>. HIDE DEF e
  <2>4. thr' \in [Threads -> CallRecords] /\ GoesOn(t, "delete")
    BY <2>1, <2>2, <2>3, CallUpdate DEF GoesOn, Turns
  <2>. QED
    BY <1>1, <1>3, <1>5, <1>7, <2>4 DEF Programmed, TypeInv
<1>. QED
  BY <1>6, <1>7

LEMMA SetHandlerStep ==
  ASSUME TypeInv, NEW t \in Threads, NEW h \in Mapped, SetHandler(t, h)
  PROVE  /\ TypeInv'
         /\ h \in Objs /\ map[h] # 0 /\ map[h] \in Objs /\ thr[t].pc = "idle" /\ hand[t].pc = "none"
         /\ \A u \in Threads \ {t} : thr[u].handle # h
         /\ objs[map[h]].init /\ ~ objs[map[h]].fn
         /\ objs' = [objs EXCEPT ![map[h]] = objs'[map[h]]]
         /\ objs'[map[h]].fn
         /\ objs'[map[h]].state = objs[map[h]].state /\ objs'[map[h]].handle = objs[map[h]].handle
         /\ objs'[map[h]].init = objs[map[h]].init /\ objs'[map[h]].prog = objs[map[h]].prog
         /\ drv'.open = drv.open /\ drv'.task = t /\ drv'.requested = drv.requested /\ drv'.payload = drv.payload
         /\ hw'.enable /\ hw'.status = hw.status /\ hw'.running = hw.running
         /\ hw'.flashing = hw.flashing /\ hw'.made = hw.made /\ hw'.quartus = hw.quartus
         /\ hw'.msi <=> (hw.msi \/ (hw.status # {} /\ ~ hw.enable))
<1>1. h \in Objs /\ map[h] # 0 /\ map[h] \in Objs
  BY ObjsRange DEF Mapped, TypeInv
<1>2. PICK o \in Objs : o = map[h]
  BY <1>1
<1>3. objs' = [objs EXCEPT ![o] = [objs[o] EXCEPT !.fn = TRUE]]
  BY <1>2 DEF SetHandler
<1>4. /\ objs' \in [Objs -> ObjRecords] /\ objs' = [objs EXCEPT ![o] = objs'[o]]
      /\ objs'[o].fn /\ objs'[o].state = objs[o].state /\ objs'[o].handle = objs[o].handle
      /\ objs'[o].init = objs[o].init /\ objs'[o].prog = objs[o].prog
  BY <1>3 DEF TypeInv, ObjRecords
<1>5. /\ drv' \in DrvRecords /\ drv'.open = drv.open /\ drv'.task = t
      /\ drv'.requested = drv.requested /\ drv'.payload = drv.payload
  BY UsedFacts DEF SetHandler, TypeInv
<1>6. /\ hw' \in HwRecords
      /\ hw'.enable /\ hw'.status = hw.status /\ hw'.running = hw.running
      /\ hw'.flashing = hw.flashing /\ hw'.made = hw.made /\ hw'.quartus = hw.quartus
      /\ hw'.msi <=> (hw.msi \/ (hw.status # {} /\ ~ hw.enable))
  <2>1. hw \in HwFields /\ hw.status \in SUBSET Regions /\ TRUE \in BOOLEAN /\ hw.running \cap hw.status = {}
    BY DEF TypeInv, HwRecords, HwFields
  <2>2. PICK b \in HwFields : b = Raise(hw, TRUE, hw.status)
    BY <2>1, RaiseFacts
  <2>3. /\ b.enable /\ b.status = hw.status /\ b.running = hw.running
        /\ b.flashing = hw.flashing /\ b.made = hw.made /\ b.quartus = hw.quartus
    BY <2>1, <2>2 DEF Raise, HwFields
  <2>4. b.msi <=> (hw.msi \/ (hw.status # {} /\ ~ hw.enable))
    BY <2>1, <2>2 DEF Raise, HwFields
  <2>5. hw' = b
    BY <2>2 DEF SetHandler
  <2>. QED
    BY <2>1, <2>3, <2>5, <2>4 DEF HwRecords
<1>. QED
  BY <1>1, <1>2, <1>4, <1>5, <1>6 DEF SetHandler, TypeInv, At, Steps, Mine

LEMMA LaunchStep ==
  ASSUME TypeInv, NEW t \in Threads, NEW h \in Mapped, NEW r \in Regions, Launch(t, h, r)
  PROVE  /\ TypeInv'
         /\ h \in Objs /\ map[h] # 0 /\ map[h] \in Objs /\ thr[t].pc = "idle" /\ hand[t].pc = "none"
         /\ \A u \in Threads \ {t} : thr[u].handle # h
         /\ objs[map[h]].fn
         /\ drv'.open = drv.open /\ drv'.task = t /\ drv'.requested = drv.requested /\ drv'.payload = drv.payload
         /\ hw'.enable = hw.enable /\ hw'.msi = hw.msi /\ hw'.status = hw.status
         /\ hw'.running = hw.running \cup {r}
         /\ hw'.flashing = hw.flashing /\ hw'.made = hw.made /\ hw'.quartus = hw.quartus
<1>1. h \in Objs /\ map[h] # 0 /\ map[h] \in Objs
  BY ObjsRange DEF Mapped, TypeInv
<1>2. /\ drv' \in DrvRecords /\ drv'.open = drv.open /\ drv'.task = t
      /\ drv'.requested = drv.requested /\ drv'.payload = drv.payload
  BY UsedFacts DEF Launch, TypeInv
<1>3. /\ hw' \in HwRecords
      /\ hw'.enable = hw.enable /\ hw'.msi = hw.msi /\ hw'.status = hw.status
      /\ hw'.running = hw.running \cup {r}
      /\ hw'.flashing = hw.flashing /\ hw'.made = hw.made /\ hw'.quartus = hw.quartus
  <2>1. r \notin hw.status /\ hw' = [hw EXCEPT !.running = hw.running \cup {r}]
    BY DEF Launch
  <2>. QED
    BY <2>1 DEF TypeInv, HwRecords, HwFields
<1>4. launched' \in 0 .. MaxLaunches
  BY MmdAssumption DEF Launch, TypeInv
<1>. QED
  BY <1>1, <1>2, <1>3, <1>4 DEF Launch, TypeInv, At, Steps, Mine

LEMMA KernelDoneStep ==
  ASSUME TypeInv, NEW r \in Regions, KernelDone(r)
  PROVE  /\ TypeInv'
         /\ r \in hw.running
         /\ hw'.enable = hw.enable /\ hw'.status = hw.status \cup {r} /\ hw'.running = hw.running \ {r}
         /\ hw'.flashing = hw.flashing /\ hw'.made = hw.made /\ hw'.quartus = hw.quartus
         /\ hw'.msi <=> (hw.msi \/ (hw.enable /\ hw.status = {}))
<1>1. /\ hw \in HwFields /\ hw.status \cup {r} \in SUBSET Regions /\ hw.enable \in BOOLEAN
      /\ hw.running \cap hw.status = {} /\ hw.running \in SUBSET Regions
  BY DEF TypeInv, HwRecords, HwFields
<1>2. PICK b \in HwFields : b = Raise(hw, hw.enable, hw.status \cup {r})
  BY <1>1, RaiseFacts
<1>3. /\ b.enable = hw.enable /\ b.status = hw.status \cup {r} /\ b.running = hw.running
      /\ b.flashing = hw.flashing /\ b.made = hw.made /\ b.quartus = hw.quartus
      /\ b.msi <=> (hw.msi \/ (hw.enable /\ hw.status = {}))
  BY <1>1, <1>2, RaiseFacts
<1>4. hw' = [b EXCEPT !.running = hw.running \ {r}] /\ r \in hw.running
  BY <1>2, <1>3 DEF KernelDone
<1>5. hw' \in HwFields /\ hw'.status = hw.status \cup {r} /\ hw'.running = hw.running \ {r}
  BY <1>1, <1>3, <1>4 DEF HwFields
<1>6. hw' \in HwRecords
  BY <1>1, <1>5 DEF HwRecords
<1>7. /\ hw'.enable = hw.enable /\ hw'.msi = b.msi
      /\ hw'.flashing = hw.flashing /\ hw'.made = hw.made /\ hw'.quartus = hw.quartus
  BY <1>3, <1>4 DEF HwFields
<1>. QED
  BY <1>3, <1>4, <1>5, <1>6, <1>7 DEF KernelDone, TypeInv

LEMMA IrqStep ==
  ASSUME TypeInv, drv.requested => drv.task \in Threads, Irq
  PROVE  /\ TypeInv'
         /\ hw.msi /\ drv.requested /\ ~ hw'.msi
         /\ hw'.status = hw.status /\ hw'.running = hw.running
         /\ hw'.flashing = hw.flashing /\ hw'.made = hw.made /\ hw'.quartus = hw.quartus
         /\ drv.pr => hw'.enable = hw.enable /\ sigs' = sigs
         /\ ~ drv.pr /\ hw.status = {} => hw'.enable = hw.enable /\ sigs' = sigs
         /\ ~ drv.pr /\ hw.status # {} =>
              /\ ~ hw'.enable
              /\ sigs' = [sigs EXCEPT ![drv.task] = Append(sigs[drv.task], drv.payload)]
<1>1. drv.payload \in 0 .. MaxOpens /\ drv.task \in Threads
  BY DEF Irq, TypeInv, DrvRecords
<1>2. CASE drv.pr \/ hw.status = {}
  <2>1. hw' = [hw EXCEPT !.msi = FALSE] /\ sigs' = sigs
    BY <1>2 DEF Irq
  <2>2. /\ hw' \in HwRecords /\ ~ hw'.msi /\ hw'.status = hw.status /\ hw'.running = hw.running
        /\ hw'.flashing = hw.flashing /\ hw'.made = hw.made /\ hw'.quartus = hw.quartus
        /\ hw'.enable = hw.enable
    BY <2>1 DEF TypeInv, HwRecords, HwFields
  <2>. QED
    BY <1>2, <2>1, <2>2 DEF Irq, TypeInv
<1>3. CASE ~ drv.pr /\ hw.status # {}
  <2>1. /\ hw' = [hw EXCEPT !.msi = FALSE, !.enable = FALSE]
        /\ sigs' = [sigs EXCEPT ![drv.task] = Append(sigs[drv.task], drv.payload)]
    BY <1>3 DEF Irq
  <2>2. /\ hw' \in HwRecords /\ ~ hw'.msi /\ hw'.status = hw.status /\ hw'.running = hw.running
        /\ hw'.flashing = hw.flashing /\ hw'.made = hw.made /\ hw'.quartus = hw.quartus
        /\ ~ hw'.enable
    BY <2>1 DEF TypeInv, HwRecords, HwFields
  <2>3. Append(sigs[drv.task], drv.payload) \in Seq(0 .. MaxOpens)
    BY <1>1 DEF TypeInv
  <2>4. sigs' \in [Threads -> Seq(0 .. MaxOpens)]
    BY <2>1, <2>3 DEF TypeInv
  <2>. QED
    BY <1>3, <2>1, <2>2, <2>4 DEF Irq, TypeInv
<1>. QED
  BY <1>2, <1>3

LEMMA SignalSplit ==
  ASSUME NEW S, NEW s \in Seq(S), s # <<>>
  PROVE  Head(s) \in S /\ Tail(s) \in Seq(S)
OBVIOUS

LEMMA SignalTakenStep ==
  ASSUME TypeInv, NEW t \in Threads, SignalTaken(t)
  PROVE  /\ TypeInv'
         /\ hand[t].pc = "none" /\ sigs[t] # <<>> /\ sigs' = [sigs EXCEPT ![t] = Tail(sigs[t])]
         /\ Head(sigs[t]) \in 0 .. MaxOpens
         /\ Head(sigs[t]) \notin Mapped => hand' = hand
         /\ Head(sigs[t]) \in Mapped =>
              /\ hand'[t].pc = "found" /\ hand'[t].obj = map[Head(sigs[t])]
              /\ \A u \in Threads \ {t} : hand'[u] = hand[u]
<1>1. hand[t].pc = "none" /\ sigs[t] # <<>> /\ sigs' = [sigs EXCEPT ![t] = Tail(sigs[t])]
  BY DEF SignalTaken, Steps
<1>2. sigs[t] \in Seq(0 .. MaxOpens)
  BY DEF TypeInv
<1>3. Head(sigs[t]) \in 0 .. MaxOpens /\ Tail(sigs[t]) \in Seq(0 .. MaxOpens)
  BY <1>1, <1>2, SignalSplit
<1>4. sigs' \in [Threads -> Seq(0 .. MaxOpens)]
  BY <1>1, <1>3 DEF TypeInv
<1>5. CASE Head(sigs[t]) \notin Mapped
  <2>1. hand' = hand
    BY <1>5 DEF SignalTaken
  <2>. QED
    BY <1>1, <1>3, <1>4, <1>5, <2>1 DEF SignalTaken, TypeInv
<1>6. CASE Head(sigs[t]) \in Mapped
  <2>1. PICK o \in Objs : o = map[Head(sigs[t])]
    BY <1>6, ObjsRange DEF Mapped, TypeInv
  <2>. DEFINE e == [pc |-> "found", obj |-> o]
  <2>2. e \in HandRecords /\ e.pc = "found" /\ e.obj = o
    BY ObjsRange DEF HandRecords, HandFields
  <2>3. hand' = [hand EXCEPT ![t] = e]
    BY <1>6, <2>1 DEF SignalTaken
  <2>. HIDE DEF e
  <2>4. /\ hand' \in [Threads -> HandRecords] /\ hand'[t].pc = "found" /\ hand'[t].obj = o
        /\ \A u \in Threads \ {t} : hand'[u] = hand[u]
    BY <2>2, <2>3 DEF TypeInv
  <2>. QED
    BY <1>1, <1>3, <1>4, <1>6, <2>1, <2>4 DEF SignalTaken, TypeInv
<1>. QED
  BY <1>5, <1>6

LEMMA CallbackStep ==
  ASSUME TypeInv, NEW t \in Threads, Callback(t)
  PROVE  /\ TypeInv'
         /\ hand[t].pc = "found"
         /\ Reachable(t) =>
              /\ end' = end
              /\ hand'[t].pc = "called" /\ hand'[t].obj = hand[t].obj
              /\ \A u \in Threads \ {t} : hand'[u] = hand[u]
              /\ hw'.enable = hw.enable /\ hw'.msi = hw.msi /\ hw'.running = hw.running
              /\ hw'.flashing = hw.flashing /\ hw'.made = hw.made /\ hw'.quartus = hw.quartus
              /\ drv'.open = drv.open /\ drv'.requested = drv.requested /\ drv'.payload = drv.payload
              /\ objs[hand[t].obj].fn => hw'.status = {} /\ drv'.task = t
              /\ ~ objs[hand[t].obj].fn => hw'.status = hw.status /\ drv'.task = drv.task
         /\ ~ Reachable(t) => end' = "crashed" /\ UNCHANGED <<hw, drv, hand>>
<1>1. CASE ~ Reachable(t)
  BY <1>1 DEF Callback, TypeInv
<1>2. CASE Reachable(t)
  <2>1. /\ hw \in HwFields /\ {} \in SUBSET Regions /\ hw.enable \in BOOLEAN /\ hw.msi \in BOOLEAN
        /\ hand[t] \in HandRecords /\ hand[t].pc = "found"
    BY DEF TypeInv, HwRecords, HwFields, Callback
  <2>. DEFINE e == [hand[t] EXCEPT !.pc = "called"]
  <2>2. e \in HandRecords /\ e.pc = "called" /\ e.obj = hand[t].obj
    BY <2>1 DEF HandRecords, HandFields
  <2>3. hand' = [hand EXCEPT ![t] = e] /\ end' = end
    BY <1>2 DEF Callback
  <2>. HIDE DEF e
  <2>4. /\ hand' \in [Threads -> HandRecords] /\ hand'[t].pc = "called" /\ hand'[t].obj = hand[t].obj
        /\ \A u \in Threads \ {t} : hand'[u] = hand[u]
    BY <2>2, <2>3 DEF TypeInv
  <2>5. CASE objs[hand[t].obj].fn
    <3>1. hw' = Raise(hw, hw.enable, {}) /\ drv' = Used(drv, t)
      BY <1>2, <2>5 DEF Callback
    <3>2. /\ hw' \in HwRecords /\ hw'.enable = hw.enable /\ hw'.msi = hw.msi /\ hw'.running = hw.running
          /\ hw'.flashing = hw.flashing /\ hw'.made = hw.made /\ hw'.quartus = hw.quartus
          /\ hw'.status = {}
      <4>1. PICK b \in HwFields : b = Raise(hw, hw.enable, {})
        BY <2>1, RaiseFacts
      <4>2. /\ b.enable = hw.enable /\ b.running = hw.running /\ b.flashing = hw.flashing
            /\ b.made = hw.made /\ b.quartus = hw.quartus /\ b.status = {} /\ (b.msi <=> hw.msi)
        BY <2>1, <4>1, RaiseFacts
      <4>3. b.msi \in BOOLEAN
        BY DEF HwFields
      <4>. QED
        BY <2>1, <3>1, <4>1, <4>2, <4>3 DEF HwRecords
    <3>3. /\ drv' \in DrvRecords /\ drv'.open = drv.open /\ drv'.requested = drv.requested
          /\ drv'.payload = drv.payload /\ drv'.task = t
      BY <3>1, UsedFacts DEF TypeInv
    <3>. QED
      BY <1>2, <2>1, <2>3, <2>4, <2>5, <3>2, <3>3 DEF Callback, TypeInv
  <2>6. CASE ~ objs[hand[t].obj].fn
    <3>1. hw' = hw /\ drv' = drv
      BY <1>2, <2>6 DEF Callback
    <3>. QED
      BY <1>2, <2>1, <2>3, <2>4, <2>6, <3>1 DEF Callback, TypeInv
  <2>. QED
    BY <2>5, <2>6
<1>. QED
  BY <1>1, <1>2

LEMMA UnmaskKernelStep ==
  ASSUME TypeInv, NEW t \in Threads, UnmaskKernel(t)
  PROVE  /\ TypeInv'
         /\ hand[t].pc = "called"
         /\ Reachable(t) =>
              /\ end' = end
              /\ hand'[t].pc = "none" /\ hand'[t].obj = 0
              /\ \A u \in Threads \ {t} : hand'[u] = hand[u]
              /\ hw'.enable /\ hw'.status = hw.status /\ hw'.running = hw.running
              /\ hw'.flashing = hw.flashing /\ hw'.made = hw.made /\ hw'.quartus = hw.quartus
              /\ hw'.msi <=> (hw.msi \/ (hw.status # {} /\ ~ hw.enable))
              /\ drv'.open = drv.open /\ drv'.requested = drv.requested /\ drv'.payload = drv.payload
              /\ drv'.task = t
         /\ ~ Reachable(t) => end' = "crashed" /\ UNCHANGED <<hw, drv, hand>>
<1>1. CASE ~ Reachable(t)
  BY <1>1 DEF UnmaskKernel, TypeInv
<1>2. CASE Reachable(t)
  <2>1. hand[t].pc = "called" /\ end' = end /\ hand' = [hand EXCEPT ![t] = Asleep]
    BY <1>2 DEF UnmaskKernel
  <2>2. Asleep \in HandRecords /\ Asleep.pc = "none" /\ Asleep.obj = 0
    BY MmdAssumption DEF Asleep, HandRecords, HandFields
  <2>3. /\ hand' \in [Threads -> HandRecords] /\ hand'[t].pc = "none" /\ hand'[t].obj = 0
        /\ \A u \in Threads \ {t} : hand'[u] = hand[u]
    BY <2>1, <2>2 DEF TypeInv
  <2>4. /\ hw' \in HwRecords
        /\ hw'.enable /\ hw'.status = hw.status /\ hw'.running = hw.running
        /\ hw'.flashing = hw.flashing /\ hw'.made = hw.made /\ hw'.quartus = hw.quartus
        /\ hw'.msi <=> (hw.msi \/ (hw.status # {} /\ ~ hw.enable))
    <3>1. hw \in HwFields /\ hw.status \in SUBSET Regions /\ TRUE \in BOOLEAN /\ hw.running \cap hw.status = {}
      BY DEF TypeInv, HwRecords, HwFields
    <3>2. hw' = Raise(hw, TRUE, hw.status)
      BY <1>2 DEF UnmaskKernel
    <3>. QED
      BY <3>1, <3>2, RaiseFacts DEF HwRecords
  <2>5. /\ drv' \in DrvRecords /\ drv'.open = drv.open /\ drv'.requested = drv.requested
        /\ drv'.payload = drv.payload /\ drv'.task = t
    BY <1>2, UsedFacts DEF UnmaskKernel, TypeInv
  <2>. QED
    BY <1>2, <2>1, <2>3, <2>4, <2>5 DEF UnmaskKernel, TypeInv
<1>. QED
  BY <1>1, <1>2

LEMMA FreeAllStep ==
  ASSUME TypeInv, FreeAll
  PROVE  /\ TypeInv'
         /\ end = "stopping" /\ end' \in {"torn", "exited"}
         /\ drv'.open = drv.open /\ drv'.task = drv.task /\ ~ drv'.requested /\ drv'.payload = drv.payload
         /\ ~ hw'.enable /\ ~ hw'.msi /\ hw'.status = hw.status /\ hw'.running = hw.running
         /\ hw'.flashing = hw.flashing /\ hw'.made = hw.made /\ hw'.quartus = hw.quartus
<1>1. /\ drv' \in DrvRecords /\ drv'.open = drv.open /\ drv'.task = drv.task
      /\ ~ drv'.requested /\ drv'.payload = drv.payload
  BY ReleaseFacts DEF FreeAll, TypeInv
<1>2. /\ hw' \in HwRecords
      /\ ~ hw'.enable /\ ~ hw'.msi /\ hw'.status = hw.status /\ hw'.running = hw.running
      /\ hw'.flashing = hw.flashing /\ hw'.made = hw.made /\ hw'.quartus = hw.quartus
  BY MaskFacts DEF FreeAll, TypeInv
<1>. QED
  BY <1>1, <1>2 DEF FreeAll, TypeInv

LEMMA TypeInit == Init => TypeInv
<1>. SUFFICES ASSUME Init PROVE TypeInv
  OBVIOUS
<1>1. 0 \in 0 .. MaxOpens /\ 0 \in 0 .. MaxLaunches /\ 0 \in Int
  BY MmdAssumption
<1>2. uid \in 0 .. MaxOpens /\ launched \in 0 .. MaxLaunches
  BY <1>1 DEF Init
<1>3. objs \in [Objs -> ObjRecords]
  BY <1>1 DEF Init, Unbuilt, ObjRecords, ObjStates
<1>4. map \in [Objs -> 0 .. MaxOpens]
  BY <1>1 DEF Init
<1>5. thr \in [Threads -> CallRecords]
  BY IdleFacts DEF Init
<1>6. drv \in DrvRecords
  BY <1>1 DEF Init, DrvRecords
<1>7. hw \in HwRecords
  <2>1. "none" \in Cores /\ FirstBase \in Bases /\ FirstQuartus \in Versions
    BY DEF Cores, Bases, Versions
  <2>2. PICK all \in [Regions -> Cores] : all = [r \in Regions |-> "none"]
    BY <2>1
  <2>3. hw = [enable |-> FALSE, status |-> {}, msi |-> FALSE, running |-> {}, base |-> FirstBase,
              made |-> FirstQuartus, quartus |-> FirstQuartus, core |-> all, flashing |-> FALSE]
    BY <2>2 DEF Init
  <2>. QED
    BY <2>1, <2>3 DEF HwRecords, HwFields
<1>8. sigs \in [Threads -> Seq(0 .. MaxOpens)]
  BY DEF Init
<1>9. hand \in [Threads -> HandRecords]
  BY <1>1 DEF Init, Asleep, HandRecords, HandFields
<1>10. end \in {"running", "stopping", "exited", "crashed", "torn"}
  BY DEF Init
<1>. QED
  BY <1>2, <1>3, <1>4, <1>5, <1>6, <1>7, <1>8, <1>9, <1>10 DEF TypeInv

-----------------------------------------------------------------------------
(* Ownership.                                                              *)

LEMMA StateInFacts ==
  /\ StateIn("closing") = "dying" /\ StateIn("discard") = "freed"
  /\ \A pc : pc \notin {"closing", "discard"} => StateIn(pc) = "live"
BY DEF StateIn

\* A step that leaves objects and calls together as they were.
LEMMA OwnedSame ==
  ASSUME TypeInv, TypeInv', Owned, map' = map, drv'.open = drv.open,
         \A o \in Objs : objs'[o].state = objs[o].state,
         \A u \in Threads : /\ thr'[u].obj = thr[u].obj /\ thr'[u].handle = thr[u].handle
                            /\ \/ thr'[u].pc = thr[u].pc
                               \/ thr[u].pc \notin {"closing", "discard"} /\ thr'[u].pc \notin {"closing", "discard"},
         \A u \in Threads : thr'[u].pc \in {"built", "signalled"} => ~ objs'[thr'[u].obj].fn
  PROVE  Owned'
<1>1. \A u \in Threads : StateIn(thr'[u].pc) = StateIn(thr[u].pc)
  BY StateInFacts
<1>2. \A u \in Threads : thr[u].obj # 0 => thr[u].obj \in Objs
  BY CallTypes DEF TypeInv
<1>3. \A h \in Objs : map[h] # 0 => map[h] \in Objs
  BY ObjsRange DEF TypeInv
<1>4. ObjectOfCall'
  BY <1>1, <1>2 DEF Owned, ObjectOfCall
<1>5. NewHasNoHandler'
  BY DEF NewHasNoHandler
<1>6. OneCall' /\ OneHandle'
  BY DEF Owned, OneCall, OneHandle
<1>7. OneSlot' /\ CallKnowsSlot'
  BY DEF Owned, OneSlot, CallKnowsSlot
<1>8. SlotIsBuilt' /\ GoingIsInCall'
  BY <1>3 DEF Owned, SlotIsBuilt, GoingIsInCall
<1>9. CountIsRight'
  <2>1. OpenFiles' = OpenFiles
    BY DEF OpenFiles
  <2>. QED
    BY <2>1 DEF Owned, CountIsRight
<1>. QED
  BY <1>4, <1>5, <1>6, <1>7, <1>8, <1>9 DEF Owned

\* A call that goes on as before, or nothing of it.
LEMMA OwnedGoesOn ==
  ASSUME TypeInv, TypeInv', Owned, NEW t \in Threads, NEW pc \in InCall \ {"closing", "discard"},
         GoesOn(t, pc), thr[t].pc \notin {"closing", "discard"}, map' = map, drv'.open = drv.open,
         \A o \in Objs : objs'[o].state = objs[o].state /\ objs'[o].fn = objs[o].fn
  PROVE  Owned'
<1>1. \A u \in Threads : u # t => thr'[u] = thr[u]
  BY DEF GoesOn, Turns
<1>2. /\ thr'[t].obj = thr[t].obj /\ thr'[t].handle = thr[t].handle /\ thr'[t].pc = pc
      /\ pc \notin {"closing", "discard", "built", "signalled"}
  BY DEF GoesOn, Turns, InCall, Programming
<1>3. \A u \in Threads : thr'[u].pc \in {"built", "signalled"} => ~ objs'[thr'[u].obj].fn
  <2>1. \A u \in Threads : thr[u].pc \in {"built", "signalled"} => thr[u].obj \in Objs /\ ~ objs[thr[u].obj].fn
    BY CallTypes DEF TypeInv, Owned, NewHasNoHandler
  <2>. QED
    BY <1>1, <1>2, <2>1
<1>. QED
  BY <1>1, <1>2, <1>3, OwnedSame

\* A thread takes the object of a slot that no other call is about.
LEMMA SlotIsFree ==
  ASSUME TypeInv, Owned, NEW t \in Threads, NEW h \in Objs, map[h] # 0, thr[t].pc = "idle",
         \A u \in Threads \ {t} : thr[u].handle # h
  PROVE  /\ map[h] \in Objs /\ Live(map[h])
         /\ \A u \in Threads : thr[u].obj # map[h]
<1>1. map[h] \in Objs /\ h # 0
  BY ObjsRange DEF TypeInv
<1>2. thr[t].handle = 0
  BY CallTypes DEF TypeInv, InCall, Programming
<1>3. \A u \in Threads : thr[u].obj # map[h]
  BY <1>1, <1>2 DEF Owned, CallKnowsSlot
<1>. QED
  BY <1>1, <1>3 DEF Owned, GoingIsInCall, Live

LEMMA OwnedTakes ==
  ASSUME TypeInv, TypeInv', Owned, NEW t \in Threads, NEW h \in Objs, map[h] # 0, thr[t].pc = "idle",
         \A u \in Threads \ {t} : thr[u].handle # h,
         NEW pc \in {"delete", "pr"}, Turns(t, pc, map[h], h), map' = map, drv'.open = drv.open,
         \A o \in Objs : objs'[o].state = objs[o].state /\ objs'[o].fn = objs[o].fn
  PROVE  Owned'
<1>1. map[h] \in Objs /\ Live(map[h]) /\ \A u \in Threads : thr[u].obj # map[h]
  BY SlotIsFree
<1>2. /\ \A u \in Threads : u # t => thr'[u] = thr[u]
      /\ thr'[t].pc = pc /\ thr'[t].obj = map[h] /\ thr'[t].handle = h
  BY DEF Turns
<1>3. \A u \in Threads : thr[u].obj # 0 => thr[u].obj \in Objs
  BY CallTypes DEF TypeInv
<1>4. \A k \in Objs : map[k] # 0 => map[k] \in Objs
  BY ObjsRange DEF TypeInv
<1>5. thr[t].obj = 0 /\ thr[t].handle = 0
  BY CallTypes DEF TypeInv, InCall, Programming
<1>6. ObjectOfCall'
  BY <1>1, <1>2, <1>3, StateInFacts DEF Owned, ObjectOfCall, Live
<1>7. NewHasNoHandler'
  <2>1. \A u \in Threads : thr[u].pc \in {"built", "signalled"} => thr[u].obj \in Objs /\ ~ objs[thr[u].obj].fn
    BY CallTypes DEF TypeInv, Owned, NewHasNoHandler
  <2>. QED
    BY <1>2, <2>1 DEF NewHasNoHandler
<1>8. OneCall' /\ OneHandle'
  BY <1>1, <1>2 DEF Owned, OneCall, OneHandle
<1>9. OneSlot' /\ CallKnowsSlot'
  BY <1>2 DEF Owned, OneSlot, CallKnowsSlot
<1>10. SlotIsBuilt' /\ GoingIsInCall'
  BY <1>2, <1>4, <1>5 DEF Owned, SlotIsBuilt, GoingIsInCall
<1>11. CountIsRight'
  <2>1. OpenFiles' = OpenFiles
    BY DEF OpenFiles
  <2>. QED
    BY <2>1 DEF Owned, CountIsRight
<1>. QED
  BY <1>6, <1>7, <1>8, <1>9, <1>10, <1>11 DEF Owned

LEMMA ObjsFinite == IsFiniteSet(Objs)
BY FS_Interval, MmdAssumption DEF Objs

LEMMA OwnedOpenConstruct ==
  ASSUME TypeInv, Owned, NEW t \in Threads, OpenConstruct(t)
  PROVE  Owned'
<1>1. TypeInv' /\ thr[t].pc = "numbered" /\ thr[t].obj = 0 /\ thr[t].handle = 0
  BY OpenConstructStep
<1>2. PICK o \in Objs, sound \in BOOLEAN :
        /\ objs[o].state = "unbuilt"
        /\ objs' = [objs EXCEPT ![o] = objs'[o]]
        /\ objs'[o].state = "live" /\ objs'[o].handle = uid /\ objs'[o].init = sound
        /\ ~ objs'[o].fn /\ ~ objs'[o].prog
        /\ Turns(t, IF sound THEN "built" ELSE "signalled", o, 0)
  BY OpenConstructStep
<1>3. map' = map /\ drv'.open = drv.open + 1
  BY DriverOpenFacts DEF OpenConstruct, TypeInv
<1>4. /\ \A u \in Threads : u # t => thr'[u] = thr[u]
      /\ thr'[t].pc \in {"built", "signalled"} /\ thr'[t].obj = o /\ thr'[t].handle = 0
  BY <1>2 DEF Turns
<1>5. \A p \in Objs : p # o => objs'[p] = objs[p]
  BY <1>2 DEF TypeInv
<1>6. \A u \in Threads : thr[u].obj # 0 => thr[u].obj \in Objs /\ thr[u].obj # o
  <2>1. \A u \in Threads : thr[u].obj # 0 => thr[u].obj \in Objs /\ objs[thr[u].obj].state # "unbuilt"
    BY CallTypes DEF TypeInv, Owned, ObjectOfCall, StateIn
  <2>. QED
    BY <1>2, <2>1
<1>7. \A k \in Objs : map[k] # 0 => map[k] \in Objs /\ map[k] # o
  BY <1>2, ObjsRange DEF TypeInv, Owned, SlotIsBuilt
<1>8. o # 0
  BY ObjsRange
<1>9. ObjectOfCall'
  BY <1>2, <1>4, <1>5, <1>6, StateInFacts DEF Owned, ObjectOfCall
<1>10. NewHasNoHandler'
  <2>1. \A u \in Threads : thr[u].pc \in {"built", "signalled"} => thr[u].obj # 0
    BY CallTypes DEF TypeInv
  <2>. QED
    BY <1>2, <1>4, <1>5, <1>6, <2>1 DEF Owned, NewHasNoHandler
<1>11. OneCall' /\ OneHandle'
  BY <1>1, <1>4, <1>6, <1>8 DEF Owned, OneCall, OneHandle
<1>12. OneSlot' /\ CallKnowsSlot'
  BY <1>3, <1>4, <1>7 DEF Owned, OneSlot, CallKnowsSlot
<1>13. SlotIsBuilt' /\ GoingIsInCall'
  BY <1>1, <1>3, <1>4, <1>5, <1>7 DEF Owned, SlotIsBuilt, GoingIsInCall
<1>14. CountIsRight'
  <2>1. OpenFiles' = OpenFiles \cup {o} /\ o \notin OpenFiles
    BY <1>2, <1>5 DEF OpenFiles
  <2>2. IsFiniteSet(OpenFiles)
    BY ObjsFinite, FS_Subset DEF OpenFiles
  <2>3. Cardinality(OpenFiles') = Cardinality(OpenFiles) + 1
    BY <2>1, <2>2, FS_AddElement
  <2>. QED
    BY <1>3, <2>3 DEF Owned, CountIsRight
<1>. QED
  BY <1>9, <1>10, <1>11, <1>12, <1>13, <1>14 DEF Owned

LEMMA OwnedOpenRecord ==
  ASSUME TypeInv, Owned, NEW t \in Threads, OpenRecord(t)
  PROVE  Owned'
<1>1. /\ TypeInv' /\ thr[t].pc = "signalled" /\ thr[t].obj \in Objs /\ thr[t].handle = 0
      /\ Turns(t, "idle", 0, 0)
  BY OpenRecordStep
<1>2. PICK o \in Objs : o = thr[t].obj
  BY <1>1
<1>3. objs' = objs /\ drv' = drv /\ map' = [map EXCEPT ![uid] = o]
  BY <1>2 DEF OpenRecord
<1>4. /\ \A u \in Threads : u # t => thr'[u] = thr[u]
      /\ thr'[t].pc = "idle" /\ thr'[t].obj = 0 /\ thr'[t].handle = 0
  BY <1>1 DEF Turns
<1>5. o # 0 /\ Live(o)
  BY <1>1, <1>2, ObjsRange, StateInFacts DEF Owned, ObjectOfCall, Live
<1>6. \A k \in Objs : map'[k] = map[k] \/ (map'[k] = o /\ k = uid)
  BY <1>3 DEF TypeInv
<1>7. \A k \in Objs : map[k] # o
  BY <1>1, <1>2, <1>5, ObjsRange DEF Owned, CallKnowsSlot
<1>8. \A u \in Threads \ {t} : thr[u].obj # o
  BY <1>2, <1>5 DEF Owned, OneCall
<1>9. ObjectOfCall' /\ NewHasNoHandler'
  BY <1>3, <1>4 DEF Owned, ObjectOfCall, NewHasNoHandler
<1>10. OneCall' /\ OneHandle'
  BY <1>4 DEF Owned, OneCall, OneHandle
<1>11. OneSlot'
  BY <1>6, <1>7 DEF Owned, OneSlot
<1>12. CallKnowsSlot'
  BY <1>4, <1>5, <1>6, <1>8 DEF Owned, CallKnowsSlot
<1>13. SlotIsBuilt'
  BY <1>3, <1>5, <1>6 DEF Owned, SlotIsBuilt, Live
<1>14. GoingIsInCall'
  BY <1>1, <1>3, <1>4, <1>5, <1>6 DEF Owned, GoingIsInCall, Live
<1>15. CountIsRight'
  BY <1>3 DEF Owned, CountIsRight, OpenFiles
<1>. QED
  BY <1>9, <1>10, <1>11, <1>12, <1>13, <1>14, <1>15 DEF Owned

LEMMA OwnedDeleteParts ==
  ASSUME TypeInv, Owned, NEW t \in Threads, DeleteParts(t)
  PROVE  Owned'
<1>1. /\ TypeInv' /\ thr[t].pc = "delete" /\ thr[t].obj \in Objs
      /\ objs' = [objs EXCEPT ![thr[t].obj] = objs'[thr[t].obj]]
      /\ objs'[thr[t].obj].state = "dying" /\ objs'[thr[t].obj].fn = objs[thr[t].obj].fn
      /\ drv'.open = drv.open /\ GoesOn(t, "closing")
  BY DeletePartsStep
<1>2. PICK o \in Objs : o = thr[t].obj
  BY <1>1
<1>3. map' = map
  BY DEF DeleteParts
<1>4. /\ \A u \in Threads : u # t => thr'[u] = thr[u]
      /\ thr'[t].pc = "closing" /\ thr'[t].obj = o /\ thr'[t].handle = thr[t].handle
  BY <1>1, <1>2 DEF GoesOn, Turns
<1>5. /\ \A p \in Objs : p # o => objs'[p] = objs[p]
      /\ objs'[o].state = "dying" /\ objs[o].state = "live"
  BY <1>1, <1>2, ObjsRange, StateInFacts DEF TypeInv, Owned, ObjectOfCall
<1>6. \A u \in Threads \ {t} : thr[u].obj # 0 => thr[u].obj \in Objs /\ thr[u].obj # o
  BY <1>2, CallTypes DEF TypeInv, Owned, OneCall
<1>7. \A k \in Objs : map[k] # 0 => map[k] \in Objs
  BY ObjsRange DEF TypeInv
<1>8. ObjectOfCall'
  BY <1>4, <1>5, <1>6, StateInFacts DEF Owned, ObjectOfCall
<1>9. NewHasNoHandler'
  <2>1. \A u \in Threads : thr[u].pc \in {"built", "signalled"} => thr[u].obj # 0
    BY CallTypes DEF TypeInv
  <2>. QED
    BY <1>4, <1>5, <1>6, <2>1 DEF Owned, NewHasNoHandler
<1>10. OneCall' /\ OneHandle'
  BY <1>2, <1>4 DEF Owned, OneCall, OneHandle
<1>11. OneSlot' /\ CallKnowsSlot'
  BY <1>2, <1>3, <1>4 DEF Owned, OneSlot, CallKnowsSlot
<1>12. SlotIsBuilt' /\ GoingIsInCall'
  BY <1>1, <1>3, <1>4, <1>5, <1>7 DEF Owned, SlotIsBuilt, GoingIsInCall
<1>13. CountIsRight'
  <2>1. OpenFiles' = OpenFiles
    BY <1>5 DEF OpenFiles
  <2>. QED
    BY <1>1, <2>1 DEF Owned, CountIsRight
<1>. QED
  BY <1>8, <1>9, <1>10, <1>11, <1>12, <1>13 DEF Owned

LEMMA OwnedDeleteDone ==
  ASSUME TypeInv, Owned, NEW t \in Threads, DeleteDone(t)
  PROVE  Owned'
<1>1. /\ TypeInv' /\ thr[t].pc = "closing" /\ thr[t].obj \in Objs
      /\ objs' = [objs EXCEPT ![thr[t].obj] = objs'[thr[t].obj]]
      /\ objs'[thr[t].obj].state = "freed"
      /\ GoesOn(t, "discard")
  BY DeleteDoneStep
<1>2. PICK o \in Objs : o = thr[t].obj
  BY <1>1
<1>3. map' = map /\ drv'.open = drv.open - 1 /\ drv.open \in Int
  BY DriverCloseFacts DEF DeleteDone, TypeInv, DrvRecords
<1>4. /\ \A u \in Threads : u # t => thr'[u] = thr[u]
      /\ thr'[t].pc = "discard" /\ thr'[t].obj = o /\ thr'[t].handle = thr[t].handle
  BY <1>1, <1>2 DEF GoesOn, Turns
<1>5. /\ \A p \in Objs : p # o => objs'[p] = objs[p]
      /\ objs'[o].state = "freed" /\ objs[o].state = "dying"
  BY <1>1, <1>2, ObjsRange, StateInFacts DEF TypeInv, Owned, ObjectOfCall
<1>6. \A u \in Threads \ {t} : thr[u].obj # 0 => thr[u].obj \in Objs /\ thr[u].obj # o
  BY <1>2, CallTypes DEF TypeInv, Owned, OneCall
<1>7. \A k \in Objs : map[k] # 0 => map[k] \in Objs
  BY ObjsRange DEF TypeInv
<1>8. ObjectOfCall'
  BY <1>4, <1>5, <1>6, StateInFacts DEF Owned, ObjectOfCall
<1>9. NewHasNoHandler'
  <2>1. \A u \in Threads : thr[u].pc \in {"built", "signalled"} => thr[u].obj # 0
    BY CallTypes DEF TypeInv
  <2>. QED
    BY <1>4, <1>5, <1>6, <2>1 DEF Owned, NewHasNoHandler
<1>10. OneCall' /\ OneHandle'
  BY <1>2, <1>4 DEF Owned, OneCall, OneHandle
<1>11. OneSlot' /\ CallKnowsSlot'
  BY <1>2, <1>3, <1>4 DEF Owned, OneSlot, CallKnowsSlot
<1>12. SlotIsBuilt' /\ GoingIsInCall'
  BY <1>1, <1>2, <1>3, <1>4, <1>5, <1>7 DEF Owned, SlotIsBuilt, GoingIsInCall
<1>13. CountIsRight'
  <2>1. OpenFiles' = OpenFiles \ {o} /\ o \in OpenFiles
    BY <1>5 DEF OpenFiles
  <2>2. IsFiniteSet(OpenFiles)
    BY ObjsFinite, FS_Subset DEF OpenFiles
  <2>3. Cardinality(OpenFiles') = Cardinality(OpenFiles) - 1
    BY <2>1, <2>2, FS_RemoveElement
  <2>. QED
    BY <1>3, <2>3 DEF Owned, CountIsRight
<1>. QED
  BY <1>8, <1>9, <1>10, <1>11, <1>12, <1>13 DEF Owned

LEMMA OwnedDiscard ==
  ASSUME TypeInv, Owned, NEW t \in Threads, Discard(t)
  PROVE  Owned'
<1>1. /\ TypeInv' /\ thr[t].pc = "discard" /\ thr[t].obj \in Objs /\ thr[t].handle \in Objs
  BY DiscardStep
<1>2. PICK pc \in {"idle", "reopen"} : Turns(t, pc, 0, 0)
  BY DiscardStep
<1>3. PICK g \in Objs : g = thr[t].handle
  BY <1>1
<1>4. objs' = objs /\ drv' = drv /\ map' = [map EXCEPT ![g] = 0]
  BY <1>3 DEF Discard
<1>5. /\ \A u \in Threads : u # t => thr'[u] = thr[u]
      /\ thr'[t].pc = pc /\ thr'[t].obj = 0 /\ thr'[t].handle = 0
  BY <1>2 DEF Turns
<1>6. map'[g] = 0 /\ \A k \in Objs : k # g => map'[k] = map[k]
  BY <1>4 DEF TypeInv
<1>7. ObjectOfCall' /\ NewHasNoHandler'
  BY <1>4, <1>5 DEF Owned, ObjectOfCall, NewHasNoHandler
<1>8. OneCall' /\ OneHandle'
  BY <1>5 DEF Owned, OneCall, OneHandle
<1>9. OneSlot' /\ CallKnowsSlot'
  BY <1>5, <1>6 DEF Owned, OneSlot, CallKnowsSlot
<1>10. SlotIsBuilt'
  BY <1>4, <1>6 DEF Owned, SlotIsBuilt
<1>11. GoingIsInCall'
  <2>. SUFFICES ASSUME NEW k \in Objs, map'[k] # 0, objs'[map'[k]].state # "live"
                PROVE  \E u \in Threads : thr'[u].obj = map'[k] /\ thr'[u].pc \in {"closing", "discard"}
    BY DEF GoingIsInCall
  <2>1. k # g /\ map'[k] = map[k] /\ objs[map[k]].state # "live"
    BY <1>4, <1>6
  <2>2. PICK u \in Threads : thr[u].obj = map[k] /\ thr[u].pc \in {"closing", "discard"}
    BY <1>6, <2>1 DEF Owned, GoingIsInCall
  <2>3. thr[u].handle = k
    BY <1>6, <2>1, <2>2 DEF Owned, CallKnowsSlot
  <2>4. u # t
    BY <1>3, <2>1, <2>3
  <2>. QED
    BY <1>5, <2>1, <2>2, <2>4
<1>12. CountIsRight'
  BY <1>4 DEF Owned, CountIsRight, OpenFiles
<1>. QED
  BY <1>7, <1>8, <1>9, <1>10, <1>11, <1>12 DEF Owned

LEMMA OwnedProgrammed ==
  ASSUME TypeInv, Owned, NEW t \in Threads, Programmed(t)
  PROVE  Owned'
<1>1. /\ TypeInv' /\ thr[t].pc = "programmed" /\ thr[t].obj \in Objs
      /\ objs' = [objs EXCEPT ![thr[t].obj] = objs'[thr[t].obj]]
      /\ objs'[thr[t].obj].state = objs[thr[t].obj].state
      /\ objs'[thr[t].obj].fn = objs[thr[t].obj].fn
      /\ thr[t].failed => Turns(t, "idle", 0, 0)
      /\ ~ thr[t].failed => GoesOn(t, "delete")
  BY ProgrammedStep
<1>2. map' = map /\ drv' = drv
  BY DEF Programmed
<1>3. \A o \in Objs : objs'[o].state = objs[o].state /\ objs'[o].fn = objs[o].fn
  BY <1>1 DEF TypeInv
<1>4. CASE ~ thr[t].failed
  BY <1>1, <1>2, <1>3, <1>4, OwnedGoesOn DEF InCall
<1>5. CASE thr[t].failed
  <2>1. /\ \A u \in Threads : u # t => thr'[u] = thr[u]
        /\ thr'[t].pc = "idle" /\ thr'[t].obj = 0 /\ thr'[t].handle = 0
    BY <1>1, <1>5 DEF Turns
  <2>2. \A u \in Threads : thr[u].obj # 0 => thr[u].obj \in Objs
    BY CallTypes DEF TypeInv
  <2>3. \A k \in Objs : map[k] # 0 => map[k] \in Objs
    BY ObjsRange DEF TypeInv
  <2>4. ObjectOfCall'
    BY <1>3, <2>1, <2>2 DEF Owned, ObjectOfCall
  <2>5. NewHasNoHandler'
    <3>1. \A u \in Threads : thr[u].pc \in {"built", "signalled"} => thr[u].obj \in Objs
      BY CallTypes DEF TypeInv
    <3>. QED
      BY <1>3, <2>1, <3>1 DEF Owned, NewHasNoHandler
  <2>6. OneCall' /\ OneHandle'
    BY <2>1 DEF Owned, OneCall, OneHandle
  <2>7. OneSlot' /\ CallKnowsSlot'
    BY <1>2, <2>1 DEF Owned, OneSlot, CallKnowsSlot
  <2>8. SlotIsBuilt' /\ GoingIsInCall'
    BY <1>1, <1>2, <1>3, <2>1, <2>3 DEF Owned, SlotIsBuilt, GoingIsInCall
  <2>9. CountIsRight'
    <3>1. OpenFiles' = OpenFiles
      BY <1>3 DEF OpenFiles
    <3>. QED
      BY <1>2, <3>1 DEF Owned, CountIsRight
  <2>. QED
    BY <2>4, <2>5, <2>6, <2>7, <2>8, <2>9 DEF Owned
<1>. QED
  BY <1>4, <1>5

(* The shape of the state and ownership, together, are inductive.          *)

LEMMA OwnedAlike ==
  ASSUME TypeInv, Owned, objs' = objs, thr' = thr, map' = map, drv'.open = drv.open, TypeInv'
  PROVE  Owned'
<1>1. \A u \in Threads : thr[u].pc \in {"built", "signalled"} => ~ objs[thr[u].obj].fn
  BY DEF Owned, NewHasNoHandler
<1>. QED
  BY <1>1, OwnedSame

LEMMA CoreCalls ==
  ASSUME CoreInv, NEW t \in Threads, Calls(t)
  PROVE  CoreInv'
<1>. USE DEF CoreInv
<1>1. CASE OpenNumber(t)
  <2>1. TypeInv' /\ thr[t].pc \in {"idle", "reopen"} /\ Turns(t, "numbered", 0, 0)
    BY <1>1, OpenNumberStep
  <2>2. thr[t].obj = 0 /\ thr[t].handle = 0
    BY <2>1, CallTypes DEF TypeInv, InCall, Programming
  <2>3. map' = map /\ drv' = drv /\ objs' = objs
    BY <1>1 DEF OpenNumber
  <2>4. \A u \in Threads : thr[u].pc \in {"built", "signalled"} => ~ objs[thr[u].obj].fn
    BY DEF Owned, NewHasNoHandler
  <2>5. Owned'
    BY <2>1, <2>2, <2>3, <2>4, OwnedSame DEF Turns
  <2>. QED
    BY <2>1, <2>3, <2>5 DEF TaskKnown
<1>2. CASE OpenConstruct(t)
  <2>1. drv'.task = t
    BY <1>2, DriverOpenFacts DEF TypeInv, OpenConstruct
  <2>2. TypeInv'
    BY <1>2, OpenConstructStep
  <2>. QED
    BY <1>2, <2>1, <2>2, OwnedOpenConstruct DEF TaskKnown
<1>3. CASE OpenSignal(t)
  <2>1. /\ TypeInv' /\ thr[t].pc = "built" /\ thr[t].handle = 0 /\ Turns(t, "signalled", thr[t].obj, 0)
        /\ drv'.open = drv.open /\ drv'.task = t
    BY <1>3, OpenSignalStep
  <2>2. map' = map /\ objs' = objs
    BY <1>3 DEF OpenSignal
  <2>3. \A u \in Threads : thr[u].pc \in {"built", "signalled"} => ~ objs[thr[u].obj].fn
    BY DEF Owned, NewHasNoHandler
  <2>4. Owned'
    BY <2>1, <2>2, <2>3, OwnedSame DEF Turns
  <2>. QED
    BY <2>1, <2>4 DEF TaskKnown
<1>4. CASE OpenRecord(t)
  BY <1>4, OpenRecordStep, OwnedOpenRecord DEF TaskKnown, OpenRecord
<1>5. ASSUME NEW h \in Mapped, Close(t, h) PROVE CoreInv'
  <2>1. map' = map /\ drv' = drv /\ objs' = objs
    BY <1>5 DEF Close
  <2>. QED
    BY <1>5, <2>1, CloseStep, OwnedTakes DEF TaskKnown
<1>6. ASSUME NEW h \in Mapped, SetHandler(t, h) PROVE CoreInv'
  <2>1. /\ TypeInv' /\ h \in Objs /\ map[h] # 0 /\ thr[t].pc = "idle"
        /\ \A u \in Threads \ {t} : thr[u].handle # h
        /\ objs' = [objs EXCEPT ![map[h]] = objs'[map[h]]]
        /\ objs'[map[h]].state = objs[map[h]].state
        /\ drv'.open = drv.open /\ drv'.task = t
    BY <1>6, SetHandlerStep
  <2>2. map' = map /\ thr' = thr
    BY <1>6 DEF SetHandler
  <2>3. map[h] \in Objs /\ \A u \in Threads : thr[u].obj # map[h]
    BY <2>1, SlotIsFree
  <2>4. \A o \in Objs : objs'[o].state = objs[o].state /\ (o # map[h] => objs'[o] = objs[o])
    BY <2>1, <2>3 DEF TypeInv
  <2>5. \A u \in Threads : thr[u].pc \in {"built", "signalled"} => thr[u].obj \in Objs /\ ~ objs'[thr[u].obj].fn
    BY <2>3, <2>4, CallTypes DEF TypeInv, Owned, NewHasNoHandler
  <2>6. Owned'
    BY <2>1, <2>2, <2>4, <2>5, OwnedSame
  <2>. QED
    BY <2>1, <2>6 DEF TaskKnown
<1>7. ASSUME NEW h \in Mapped, NEW r \in Regions, Launch(t, h, r) PROVE CoreInv'
  <2>1. TypeInv' /\ drv'.open = drv.open /\ drv'.task = t
    BY <1>7, LaunchStep
  <2>2. map' = map /\ thr' = thr /\ objs' = objs
    BY <1>7 DEF Launch
  <2>. QED
    BY <2>1, <2>2, OwnedAlike DEF TaskKnown
<1>8. ASSUME NEW h \in Mapped, NEW i \in Images, NEW r \in Regions, Reprogram(t, h, i, r) PROVE CoreInv'
  <2>1. /\ TypeInv' /\ h \in Objs /\ map[h] # 0 /\ map[h] \in Objs /\ thr[t].pc = "idle"
        /\ \A u \in Threads \ {t} : thr[u].handle # h
        /\ objs' = [objs EXCEPT ![map[h]] = objs'[map[h]]]
        /\ objs'[map[h]].state = objs[map[h]].state /\ objs'[map[h]].fn = objs[map[h]].fn
        /\ Turns(t, "pr", map[h], h)
    BY <1>8, ReprogramStep
  <2>2. map' = map /\ drv' = drv
    BY <1>8 DEF Reprogram
  <2>3. \A o \in Objs : objs'[o].state = objs[o].state /\ objs'[o].fn = objs[o].fn
    BY <2>1 DEF TypeInv
  <2>. QED
    BY <2>1, <2>2, <2>3, OwnedTakes DEF TaskKnown
<1>9. CASE DeleteParts(t)
  BY <1>9, DeletePartsStep, OwnedDeleteParts DEF TaskKnown
<1>10. CASE DeleteDone(t)
  <2>1. drv'.task = drv.task /\ (drv'.requested => drv.requested)
    BY <1>10, DriverCloseFacts DEF TypeInv, DeleteDone
  <2>. QED
    BY <1>10, <2>1, DeleteDoneStep, OwnedDeleteDone DEF TaskKnown
<1>11. CASE Discard(t)
  BY <1>11, DiscardStep, OwnedDiscard DEF TaskKnown, Discard
<1>12. CASE PrBegin(t)
  BY <1>12, PrBeginStep, OwnedGoesOn DEF TaskKnown, PrBegin, InCall, Programming
<1>13. CASE PrEnd(t)
  BY <1>13, PrEndStep, OwnedGoesOn DEF TaskKnown, PrEnd, InCall, Programming
<1>14. CASE PrNot(t)
  <2>1. /\ TypeInv' /\ thr[t].pc = "pr" /\ drv'.open = drv.open /\ drv'.task \in {drv.task, t}
        /\ drv'.requested = drv.requested
        /\ \E pc \in {"save", "programmed"} : GoesOn(t, pc)
    BY <1>14, PrNotStep
  <2>2. map' = map /\ objs' = objs
    BY <1>14 DEF PrNot
  <2>3. Owned'
    BY <2>1, <2>2, OwnedGoesOn DEF InCall, Programming
  <2>. QED
    BY <2>1, <2>3 DEF TaskKnown
<1>15. CASE SaveControl(t)
  <2>1. /\ TypeInv' /\ thr[t].pc = "save" /\ drv'.open = drv.open /\ ~ drv'.requested
        /\ \E pc \in {"jtag", "delete"} : GoesOn(t, pc)
    BY <1>15, SaveControlStep
  <2>2. map' = map /\ objs' = objs
    BY <1>15 DEF SaveControl
  <2>3. Owned'
    BY <2>1, <2>2, OwnedGoesOn DEF InCall, Programming
  <2>. QED
    BY <2>1, <2>3 DEF TaskKnown
<1>16. CASE Jtag(t)
  BY <1>16, JtagStep, OwnedGoesOn DEF TaskKnown, Jtag, InCall, Programming
<1>17. CASE LoadControl(t)
  <2>1. /\ TypeInv' /\ thr[t].pc = "load" /\ drv'.open = drv.open /\ drv'.task = t
        /\ \E pc \in {"pr", "programmed"} : GoesOn(t, pc)
    BY <1>17, LoadControlStep
  <2>2. map' = map /\ objs' = objs
    BY <1>17 DEF LoadControl
  <2>3. Owned'
    BY <2>1, <2>2, OwnedGoesOn DEF InCall, Programming
  <2>. QED
    BY <2>1, <2>3 DEF TaskKnown
<1>18. CASE Programmed(t)
  BY <1>18, ProgrammedStep, OwnedProgrammed DEF TaskKnown, Programmed
<1>. QED
  BY <1>1, <1>2, <1>3, <1>4, <1>5, <1>6, <1>7, <1>8, <1>9, <1>10, <1>11, <1>12, <1>13, <1>14,
     <1>15, <1>16, <1>17, <1>18 DEF Calls

LEMMA CoreNext ==
  ASSUME CoreInv, [Next]_vars
  PROVE  CoreInv'
<1>. USE DEF CoreInv
<1>1. ASSUME NEW t \in Threads, Calls(t) PROVE CoreInv'
  BY <1>1, CoreCalls
<1>2. ASSUME NEW t \in Threads, SignalTaken(t) PROVE CoreInv'
  <2>1. map' = map /\ thr' = thr /\ objs' = objs /\ drv' = drv
    BY <1>2 DEF SignalTaken
  <2>2. TypeInv'
    BY <1>2, SignalTakenStep
  <2>. QED
    BY <2>1, <2>2, OwnedAlike DEF TaskKnown
<1>3. ASSUME NEW t \in Threads, Callback(t) PROVE CoreInv'
  <2>1. map' = map /\ thr' = thr /\ objs' = objs
    BY <1>3 DEF Callback
  <2>2. /\ TypeInv' /\ drv'.open = drv.open /\ drv'.task \in {drv.task, t}
        /\ drv'.requested = drv.requested
    BY <1>3, CallbackStep
  <2>. QED
    BY <2>1, <2>2, OwnedAlike DEF TaskKnown
<1>4. ASSUME NEW t \in Threads, UnmaskKernel(t) PROVE CoreInv'
  <2>1. map' = map /\ thr' = thr /\ objs' = objs
    BY <1>4 DEF UnmaskKernel
  <2>2. /\ TypeInv' /\ drv'.open = drv.open /\ drv'.task \in {drv.task, t}
        /\ drv'.requested = drv.requested
    BY <1>4, UnmaskKernelStep
  <2>. QED
    BY <2>1, <2>2, OwnedAlike DEF TaskKnown
<1>5. ASSUME NEW r \in Regions, KernelDone(r) PROVE CoreInv'
  <2>1. map' = map /\ thr' = thr /\ objs' = objs /\ drv' = drv
    BY <1>5 DEF KernelDone
  <2>2. TypeInv'
    BY <1>5, KernelDoneStep
  <2>. QED
    BY <2>1, <2>2, OwnedAlike DEF TaskKnown
<1>6. CASE Irq
  <2>1. map' = map /\ thr' = thr /\ objs' = objs /\ drv' = drv
    BY <1>6 DEF Irq
  <2>2. TypeInv'
    BY <1>6, IrqStep DEF TaskKnown
  <2>. QED
    BY <2>1, <2>2, OwnedAlike DEF TaskKnown
<1>7. CASE CtrlC
  <2>1. TypeInv'
    BY <1>7 DEF CtrlC, TypeInv
  <2>. QED
    BY <1>7, <2>1, OwnedAlike DEF TaskKnown, CtrlC
<1>8. CASE FreeAll
  BY <1>8, FreeAllStep, OwnedAlike DEF TaskKnown, FreeAll
<1>9. CASE UNCHANGED vars
  <2>1. TypeInv'
    BY <1>9 DEF vars, TypeInv
  <2>. QED
    BY <1>9, <2>1, OwnedAlike DEF TaskKnown, vars
<1>. QED
  BY <1>1, <1>2, <1>3, <1>4, <1>5, <1>6, <1>7, <1>8, <1>9 DEF Next

LEMMA CoreInit == Init => CoreInv
<1>. SUFFICES ASSUME Init PROVE CoreInv
  OBVIOUS
<1>1. TypeInv
  BY TypeInit
<1>2. \A t \in Threads : thr[t].pc = "idle" /\ thr[t].obj = 0 /\ thr[t].handle = 0
  BY IdleFacts DEF Init
<1>3. (\A h \in Objs : map[h] = 0) /\ (\A o \in Objs : objs[o].state = "unbuilt") /\ drv.open = 0 /\ ~ drv.requested
  BY DEF Init, Unbuilt
<1>4. CountIsRight
  <2>1. OpenFiles = {}
    BY <1>3 DEF OpenFiles
  <2>. QED
    BY <1>3, <2>1, FS_EmptySet DEF CountIsRight
<1>. QED
  BY <1>1, <1>2, <1>3, <1>4 DEF CoreInv, TaskKnown, Owned, ObjectOfCall, NewHasNoHandler, OneCall, OneHandle,
     OneSlot, CallKnowsSlot, SlotIsBuilt, GoingIsInCall

LEMMA CoreInvariant == Spec => []CoreInv
<1>1. CoreInv /\ [Next]_vars => CoreInv'
  BY CoreNext
<1>. QED
  BY <1>1, CoreInit, PTL DEF Spec

\* The shape of the state, and that the driver's count of open files stays
\* between none and one for each object: the driver sets the interrupt up at the
\* first and releases it at the last (aclpci_open and aclpci_close).
THEOREM MmdTypeCorrect == Spec => []TypeOK
<1>1. CoreInv => TypeOK
  <2>. SUFFICES ASSUME CoreInv PROVE TypeOK
    OBVIOUS
  <2>1. drv.open \in 0 .. MaxOpens
    <3>1. IsFiniteSet(OpenFiles) /\ Cardinality(OpenFiles) <= Cardinality(Objs)
      BY ObjsFinite, FS_Subset DEF OpenFiles
    <3>2. Cardinality(Objs) = MaxOpens
      BY FS_Interval, MmdAssumption DEF Objs
    <3>3. Cardinality(OpenFiles) \in Nat
      BY <3>1, FS_CardinalityType
    <3>. QED
      BY <3>1, <3>2, <3>3, MmdAssumption DEF CoreInv, Owned, CountIsRight
  <2>2. drv.payload \in 0 .. MaxOpens /\ drv.task \in Threads \cup {"nobody"}
    BY DEF CoreInv, TypeInv, DrvRecords
  <2>3. /\ hw.base \in Bases /\ hw.made \in Versions /\ hw.quartus \in Versions \cup {"blank"}
        /\ hw.core \in [Regions -> Cores] /\ hw.running \cap hw.status = {}
    BY DEF CoreInv, TypeInv, HwRecords, HwFields
  <2>4. objs \in [Objs -> [state : {"unbuilt", "live", "dying", "freed"}, handle : 0 .. MaxOpens,
                           init : BOOLEAN, prog : BOOLEAN, fn : BOOLEAN]]
    BY DEF CoreInv, TypeInv, ObjRecords, ObjStates
  <2>. QED
    BY <2>1, <2>2, <2>3, <2>4 DEF CoreInv, TypeInv, TypeOK
<1>. QED
  BY <1>1, CoreInvariant, PTL

-----------------------------------------------------------------------------
(* What the ghosts' marks mean for a step: a mark that is not there         *)
(* afterwards was neither there before nor made by the step.               *)

Keeps(marks) ==
  /\ Ordered' => Ordered /\ "overlap" \notin marks
  /\ Alone' => Alone /\ marks \cap {"overlap", "shared"} = {}
  /\ Careful' => Careful /\ marks \cap {"overlap", "shared", "careless"} = {}
  /\ Ordered' /\ "late" \notin ghost' => "late" \notin ghost \cup marks
  /\ Alone' /\ "relabelled" \notin ghost' => "relabelled" \notin ghost \cup marks

LEMMA SpoilKeeps ==
  ASSUME NEW marks, Spoil(marks)
  PROVE  Keeps(marks) /\ (Attentive' => Attentive /\ marks \cap {"overlap", "shared", "deaf"} = {})
<1>. DEFINE all == ghost \cup marks
<1>1. CASE "overlap" \in all
  <2>1. ghost' = {"overlap"}
    BY <1>1 DEF Spoil
  <2>. QED
    BY <2>1 DEF Keeps, Ordered, Alone, Careful, Attentive
<1>2. CASE "overlap" \notin all /\ "shared" \in all
  <2>1. ghost' = all \cap {"shared", "late"}
    BY <1>2 DEF Spoil
  <2>. QED
    BY <1>2, <2>1 DEF Keeps, Ordered, Alone, Careful, Attentive
<1>3. CASE "overlap" \notin all /\ "shared" \notin all
  <2>1. ghost' = all
    BY <1>3 DEF Spoil
  <2>. QED
    BY <1>3, <2>1 DEF Keeps, Ordered, Alone, Careful, Attentive
<1>. QED
  BY <1>1, <1>2, <1>3

LEMMA SameKeeps ==
  ASSUME ghost' = ghost
  PROVE  Keeps({}) /\ (Attentive' => Attentive)
BY DEF Keeps, Ordered, Alone, Careful, Attentive

LEMMA LessDeafKeeps ==
  ASSUME ghost' = ghost \/ ghost' = ghost \ {"deaf"}
  PROVE  Keeps({})
BY DEF Keeps, Ordered, Alone, Careful

-----------------------------------------------------------------------------
(* The handle map, while calls that change it do not overlap.              *)

\* A step that leaves the map and the objects' numbers alone, and that no
\* thread begins to open in, or takes a slot.
LEMMA MapSame ==
  ASSUME CoreInv, MapInv, Ordered' => Ordered, uid' = uid, map' = map,
         \A o \in Objs : objs'[o].handle = objs[o].handle,
         \A u \in Threads :
           /\ Opening(u)' => Opening(u) /\ thr'[u].obj = thr[u].obj
           /\ thr'[u].pc \in {"built", "signalled"} => thr[u].pc \in {"built", "signalled"}
           /\ thr'[u].handle # 0 => thr'[u].handle = thr[u].handle /\ thr'[u].obj = thr[u].obj
  PROVE  MapInv'
<1>. SUFFICES ASSUME Ordered' PROVE (OneOpens /\ NumberIsNew /\ SlotOfCall /\ SlotNamesDevice)'
  BY DEF MapInv
<1>1. OneOpens /\ NumberIsNew /\ SlotOfCall /\ SlotNamesDevice
  BY DEF MapInv
<1>2. \A u \in Threads : thr[u].obj # 0 => thr[u].obj \in Objs
  BY CallTypes DEF CoreInv, TypeInv
<1>3. \A h \in Objs : map[h] # 0 => map[h] \in Objs
  BY ObjsRange DEF CoreInv, TypeInv
<1>4. \A u \in Threads : thr[u].pc \in {"built", "signalled"} => thr[u].obj # 0 /\ Opening(u)
  BY CallTypes DEF CoreInv, TypeInv, Opening
<1>5. OneOpens'
  BY <1>1 DEF OneOpens
<1>6. NumberIsNew'
  <2>1. \A u \in Threads : thr'[u].pc \in {"built", "signalled"} => Opening(u)'
    BY DEF Opening
  <2>. QED
    BY <1>1, <1>2, <1>4, <2>1 DEF NumberIsNew
<1>7. SlotOfCall'
  BY <1>1 DEF SlotOfCall
<1>8. SlotNamesDevice'
  BY <1>1, <1>3 DEF SlotNamesDevice
<1>. QED
  BY <1>5, <1>6, <1>7, <1>8

\* A call that goes on.
LEMMA MapGoesOn ==
  ASSUME CoreInv, MapInv, Ordered' => Ordered, uid' = uid, map' = map,
         \A o \in Objs : objs'[o].handle = objs[o].handle,
         NEW t \in Threads, NEW pc \in InCall, GoesOn(t, pc)
  PROVE  MapInv'
<1>1. \A u \in Threads \ {t} : thr'[u] = thr[u]
  BY DEF GoesOn, Turns
<1>2. thr'[t].pc = pc /\ thr'[t].obj = thr[t].obj /\ thr'[t].handle = thr[t].handle
  BY DEF GoesOn, Turns
<1>3. ~ Opening(t)' /\ thr'[t].pc \notin {"built", "signalled"}
  BY <1>2 DEF Opening, InCall, Programming
<1>4. \A u \in Threads \ {t} : Opening(u)' <=> Opening(u)
  BY <1>1 DEF Opening
<1>. QED
  BY <1>1, <1>2, <1>3, <1>4, MapSame

LEMMA MapTakes ==
  ASSUME CoreInv, MapInv, Ordered' => Ordered, uid' = uid, map' = map,
         \A o \in Objs : objs'[o].handle = objs[o].handle,
         NEW t \in Threads, NEW h \in Objs, NEW pc \in {"delete", "pr"}, Turns(t, pc, map[h], h)
  PROVE  MapInv'
<1>. SUFFICES ASSUME Ordered' PROVE (OneOpens /\ NumberIsNew /\ SlotOfCall /\ SlotNamesDevice)'
  BY DEF MapInv
<1>1. OneOpens /\ NumberIsNew /\ SlotOfCall /\ SlotNamesDevice
  BY DEF MapInv
<1>2. /\ \A u \in Threads : u # t => thr'[u] = thr[u]
      /\ thr'[t].pc = pc /\ thr'[t].obj = map[h] /\ thr'[t].handle = h
  BY DEF Turns
<1>3. \A u \in Threads : Opening(u)' => u # t /\ Opening(u)
  BY <1>2 DEF Opening
<1>4. \A u \in Threads : thr[u].pc \in {"built", "signalled"} => thr[u].obj \in Objs
  BY CallTypes DEF CoreInv, TypeInv
<1>5. \A k \in Objs : map[k] # 0 => map[k] \in Objs
  BY ObjsRange DEF CoreInv, TypeInv
<1>6. OneOpens'
  BY <1>1, <1>3 DEF OneOpens
<1>7. NumberIsNew'
  BY <1>1, <1>2, <1>3, <1>4 DEF NumberIsNew
<1>8. SlotOfCall' /\ SlotNamesDevice'
  BY <1>1, <1>2, <1>5 DEF SlotOfCall, SlotNamesDevice
<1>. QED
  BY <1>6, <1>7, <1>8

LEMMA MapOpenNumber ==
  ASSUME CoreInv, MapInv, NEW t \in Threads, OpenNumber(t)
  PROVE  MapInv'
<1>. SUFFICES ASSUME Ordered' PROVE (OneOpens /\ NumberIsNew /\ SlotOfCall /\ SlotNamesDevice)'
  BY DEF MapInv
<1>1. Ordered /\ Overlap(t) = {}
  BY SpoilKeeps DEF OpenNumber, Overlap, Keeps
<1>2. OneOpens /\ NumberIsNew /\ SlotOfCall /\ SlotNamesDevice
  BY <1>1 DEF MapInv
<1>3. \A u \in Threads \ {t} : ~ InMap(u)
  BY <1>1 DEF Overlap
<1>4. Turns(t, "numbered", 0, 0)
  BY OpenNumberStep DEF CoreInv
<1>5. /\ \A u \in Threads : u # t => thr'[u] = thr[u]
      /\ thr'[t].pc = "numbered" /\ thr'[t].handle = 0
  BY <1>4 DEF Turns
<1>6. \A u \in Threads : u # t => ~ Opening(u)' /\ thr'[u].pc \notin {"numbered", "built", "signalled"}
  BY <1>3, <1>5 DEF InMap, Opening
<1>7. uid' = uid + 1 /\ uid' \in Objs /\ uid \in Int /\ map' = map /\ objs' = objs
  <2>1. \A v \in Threads \ {t} : thr[v].pc # "numbered"
    BY <1>5, <1>6
  <2>2. uid' = uid + 1 /\ uid < MaxOpens
    BY <2>1 DEF OpenNumber
  <2>. QED
    BY <2>2, MmdAssumption DEF OpenNumber, Objs, CoreInv, TypeInv
<1>8. map[uid'] = 0 /\ \A h \in Objs : map[h] # 0 => h <= uid'
  BY <1>2, <1>7, ObjsRange DEF NumberIsNew
<1>9. OneOpens'
  BY <1>6 DEF OneOpens
<1>10. NumberIsNew'
  BY <1>5, <1>6, <1>7, <1>8 DEF NumberIsNew, Opening
<1>11. SlotOfCall' /\ SlotNamesDevice'
  BY <1>2, <1>5, <1>7 DEF SlotOfCall, SlotNamesDevice
<1>. QED
  BY <1>9, <1>10, <1>11

LEMMA MapOpenConstruct ==
  ASSUME CoreInv, MapInv, NEW t \in Threads, OpenConstruct(t)
  PROVE  MapInv'
<1>. SUFFICES ASSUME Ordered' PROVE (OneOpens /\ NumberIsNew /\ SlotOfCall /\ SlotNamesDevice)'
  BY DEF MapInv
<1>1. Ordered
  BY SpoilKeeps DEF OpenConstruct, Keeps
<1>2. OneOpens /\ NumberIsNew /\ SlotOfCall /\ SlotNamesDevice
  BY <1>1 DEF MapInv
<1>3. thr[t].pc = "numbered" /\ uid' = uid /\ map' = map
  BY OpenConstructStep DEF CoreInv, OpenConstruct
<1>4. PICK o \in Objs, sound \in BOOLEAN :
        /\ objs[o].state = "unbuilt"
        /\ objs' = [objs EXCEPT ![o] = objs'[o]] /\ objs'[o].handle = uid
        /\ Turns(t, IF sound THEN "built" ELSE "signalled", o, 0)
  BY OpenConstructStep DEF CoreInv
<1>5. /\ \A u \in Threads : u # t => thr'[u] = thr[u]
      /\ thr'[t].pc \in {"built", "signalled"} /\ thr'[t].obj = o /\ thr'[t].handle = 0
  BY <1>4 DEF Turns
<1>6. \A u \in Threads : Opening(u)' => Opening(u)
  BY <1>3, <1>5 DEF Opening
<1>7. \A u \in Threads : u # t => thr'[u].pc \notin {"built", "signalled"}
  BY <1>2, <1>3, <1>5 DEF OneOpens, Opening
<1>8. \A p \in Objs : p # o => objs'[p] = objs[p]
  BY <1>4 DEF CoreInv, TypeInv
<1>9. \A h \in Objs : map[h] # 0 => map[h] \in Objs /\ map[h] # o
  BY <1>4, ObjsRange DEF CoreInv, TypeInv, Owned, SlotIsBuilt
<1>10. OneOpens'
  BY <1>2, <1>6 DEF OneOpens
<1>11. NumberIsNew'
  BY <1>2, <1>3, <1>4, <1>5, <1>6, <1>7 DEF NumberIsNew
<1>12. SlotOfCall' /\ SlotNamesDevice'
  BY <1>2, <1>3, <1>5, <1>8, <1>9 DEF SlotOfCall, SlotNamesDevice
<1>. QED
  BY <1>10, <1>11, <1>12

LEMMA MapOpenRecord ==
  ASSUME CoreInv, MapInv, NEW t \in Threads, OpenRecord(t)
  PROVE  MapInv'
<1>. SUFFICES ASSUME Ordered' PROVE (OneOpens /\ NumberIsNew /\ SlotOfCall /\ SlotNamesDevice)'
  BY DEF MapInv
<1>1. Ordered
  BY SpoilKeeps DEF OpenRecord, Keeps
<1>2. OneOpens /\ NumberIsNew /\ SlotOfCall /\ SlotNamesDevice
  BY <1>1 DEF MapInv
<1>3. thr[t].pc = "signalled" /\ thr[t].obj \in Objs /\ Turns(t, "idle", 0, 0)
  BY OpenRecordStep DEF CoreInv
<1>4. PICK o \in Objs : o = thr[t].obj
  BY <1>3
<1>5. uid' = uid /\ objs' = objs /\ map' = [map EXCEPT ![uid] = o]
  BY <1>4 DEF OpenRecord
<1>6. uid \in Objs /\ uid \in Int /\ map[uid] = 0 /\ objs[o].handle = uid
  BY <1>2, <1>3, <1>4, ObjsRange DEF NumberIsNew, Opening
<1>7. map'[uid] = o /\ \A k \in Objs : k # uid => map'[k] = map[k]
  BY <1>5, <1>6 DEF CoreInv, TypeInv
<1>8. /\ \A u \in Threads : u # t => thr'[u] = thr[u] /\ ~ Opening(u)
      /\ thr'[t].pc = "idle" /\ thr'[t].handle = 0
  BY <1>2, <1>3 DEF Turns, OneOpens, Opening
<1>9. \A u \in Threads : ~ Opening(u)' /\ thr'[u].pc \notin {"built", "signalled"}
  BY <1>8 DEF Opening
<1>10. OneOpens'
  BY <1>9 DEF OneOpens
<1>11. NumberIsNew'
  BY <1>2, <1>5, <1>6, <1>7, <1>9 DEF NumberIsNew
<1>12. SlotOfCall'
  <2>. SUFFICES ASSUME NEW u \in Threads, thr'[u].handle # 0 PROVE map'[thr'[u].handle] = thr'[u].obj
    BY DEF SlotOfCall
  <2>1. u # t /\ thr'[u] = thr[u]
    BY <1>8
  <2>2. thr[u].handle \in Objs /\ map[thr[u].handle] = thr[u].obj /\ thr[u].obj # 0
    BY <1>2, <2>1, CallTypes DEF SlotOfCall, CoreInv, TypeInv
  <2>3. thr[u].handle # uid
    BY <1>6, <2>2
  <2>. QED
    BY <1>7, <2>1, <2>2, <2>3
<1>13. SlotNamesDevice'
  BY <1>2, <1>5, <1>6, <1>7 DEF SlotNamesDevice
<1>. QED
  BY <1>10, <1>11, <1>12, <1>13

LEMMA MapDiscard ==
  ASSUME CoreInv, MapInv, NEW t \in Threads, Discard(t)
  PROVE  MapInv'
<1>. SUFFICES ASSUME Ordered' PROVE (OneOpens /\ NumberIsNew /\ SlotOfCall /\ SlotNamesDevice)'
  BY DEF MapInv
<1>1. Ordered
  BY DEF Discard, Ordered
<1>2. OneOpens /\ NumberIsNew /\ SlotOfCall /\ SlotNamesDevice
  BY <1>1 DEF MapInv
<1>3. thr[t].pc = "discard" /\ thr[t].obj \in Objs /\ thr[t].handle \in Objs
  BY DiscardStep DEF CoreInv
<1>4. PICK pc \in {"idle", "reopen"} : Turns(t, pc, 0, 0)
  BY DiscardStep DEF CoreInv
<1>5. PICK g \in Objs : g = thr[t].handle
  BY <1>3
<1>6. uid' = uid /\ objs' = objs /\ map' = [map EXCEPT ![g] = 0]
  BY <1>5 DEF Discard
<1>7. map'[g] = 0 /\ \A k \in Objs : k # g => map'[k] = map[k]
  BY <1>6 DEF CoreInv, TypeInv
<1>8. /\ \A u \in Threads : u # t => thr'[u] = thr[u] /\ thr[u].handle # g
      /\ thr'[t].pc = pc /\ thr'[t].handle = 0 /\ g # 0
  BY <1>4, <1>5, ObjsRange DEF Turns, CoreInv, Owned, OneHandle
<1>9. \A u \in Threads : Opening(u)' => u # t /\ Opening(u)
  BY <1>8 DEF Opening
<1>10. OneOpens'
  BY <1>2, <1>9 DEF OneOpens
<1>11. NumberIsNew'
  BY <1>2, <1>6, <1>7, <1>8, <1>9 DEF NumberIsNew
<1>12. SlotOfCall'
  <2>1. \A u \in Threads : thr[u].handle # 0 => thr[u].handle \in Objs
    BY CallTypes DEF CoreInv, TypeInv
  <2>. QED
    BY <1>2, <1>7, <1>8, <2>1 DEF SlotOfCall
<1>13. SlotNamesDevice'
  BY <1>2, <1>6, <1>7 DEF SlotNamesDevice
<1>. QED
  BY <1>10, <1>11, <1>12, <1>13

LEMMA MapUnchanged ==
  ASSUME CoreInv, MapInv, Ordered' => Ordered, uid' = uid, map' = map, thr' = thr,
         \A o \in Objs : objs'[o].handle = objs[o].handle
  PROVE  MapInv'
BY MapSame DEF Opening

LEMMA MapCalls ==
  ASSUME CoreInv, MapInv, NEW t \in Threads, Calls(t)
  PROVE  MapInv'
<1>. USE DEF CoreInv
<1>1. CASE OpenNumber(t)
  BY <1>1, MapOpenNumber
<1>2. CASE OpenConstruct(t)
  BY <1>2, MapOpenConstruct
<1>3. CASE OpenSignal(t)
  <2>1. /\ Turns(t, "signalled", thr[t].obj, 0) /\ thr[t].pc = "built" /\ thr[t].handle = 0
    BY <1>3, OpenSignalStep
  <2>2. uid' = uid /\ map' = map /\ objs' = objs /\ (Ordered' => Ordered)
    BY <1>3, SameKeeps DEF OpenSignal, Keeps
  <2>3. \A u \in Threads : Opening(u)' => Opening(u) /\ thr'[u].obj = thr[u].obj
    BY <2>1 DEF Turns, Opening
  <2>. QED
    BY <2>1, <2>2, <2>3, MapSame DEF Turns
<1>4. CASE OpenRecord(t)
  BY <1>4, MapOpenRecord
<1>5. ASSUME NEW h \in Mapped, Close(t, h) PROVE MapInv'
  <2>1. h \in Objs /\ Turns(t, "delete", map[h], h)
    BY <1>5, CloseStep
  <2>2. uid' = uid /\ map' = map /\ objs' = objs /\ (Ordered' => Ordered)
    BY <1>5, SpoilKeeps DEF Close, Keeps
  <2>. QED
    BY <2>1, <2>2, MapTakes
<1>6. ASSUME NEW h \in Mapped, SetHandler(t, h) PROVE MapInv'
  <2>1. /\ map[h] \in Objs /\ objs' = [objs EXCEPT ![map[h]] = objs'[map[h]]]
        /\ objs'[map[h]].handle = objs[map[h]].handle
    BY <1>6, SetHandlerStep
  <2>2. \A o \in Objs : objs'[o].handle = objs[o].handle
    BY <2>1 DEF TypeInv
  <2>3. uid' = uid /\ map' = map /\ thr' = thr /\ (Ordered' => Ordered)
    BY <1>6, SameKeeps DEF SetHandler, Keeps
  <2>. QED
    BY <2>2, <2>3, MapUnchanged
<1>7. ASSUME NEW h \in Mapped, NEW r \in Regions, Launch(t, h, r) PROVE MapInv'
  <2>1. uid' = uid /\ map' = map /\ thr' = thr /\ objs' = objs /\ (Ordered' => Ordered)
    BY <1>7, SameKeeps DEF Launch, Keeps
  <2>. QED
    BY <2>1, MapUnchanged
<1>8. ASSUME NEW h \in Mapped, NEW i \in Images, NEW r \in Regions, Reprogram(t, h, i, r) PROVE MapInv'
  <2>1. /\ h \in Objs /\ map[h] \in Objs /\ objs' = [objs EXCEPT ![map[h]] = objs'[map[h]]]
        /\ objs'[map[h]].handle = objs[map[h]].handle /\ Turns(t, "pr", map[h], h)
    BY <1>8, ReprogramStep
  <2>2. \A o \in Objs : objs'[o].handle = objs[o].handle
    BY <2>1 DEF TypeInv
  <2>3. uid' = uid /\ map' = map /\ (Ordered' => Ordered)
    BY <1>8, SpoilKeeps DEF Reprogram, Keeps
  <2>. QED
    BY <2>1, <2>2, <2>3, MapTakes
<1>9. CASE DeleteParts(t)
  <2>1. /\ thr[t].obj \in Objs /\ objs' = [objs EXCEPT ![thr[t].obj] = objs'[thr[t].obj]]
        /\ objs'[thr[t].obj].handle = objs[thr[t].obj].handle /\ GoesOn(t, "closing")
    BY <1>9, DeletePartsStep
  <2>2. \A o \in Objs : objs'[o].handle = objs[o].handle
    BY <2>1 DEF TypeInv
  <2>3. uid' = uid /\ map' = map /\ (Ordered' => Ordered)
    BY <1>9, SameKeeps DEF DeleteParts, Keeps
  <2>. QED
    BY <2>1, <2>2, <2>3, MapGoesOn DEF InCall
<1>10. CASE DeleteDone(t)
  <2>1. /\ thr[t].obj \in Objs /\ objs' = [objs EXCEPT ![thr[t].obj] = objs'[thr[t].obj]]
        /\ objs'[thr[t].obj].handle = objs[thr[t].obj].handle /\ GoesOn(t, "discard")
    BY <1>10, DeleteDoneStep
  <2>2. \A o \in Objs : objs'[o].handle = objs[o].handle
    BY <2>1 DEF TypeInv
  <2>3. uid' = uid /\ map' = map /\ (Ordered' => Ordered)
    BY <1>10, LessDeafKeeps DEF DeleteDone, Keeps
  <2>. QED
    BY <2>1, <2>2, <2>3, MapGoesOn DEF InCall
<1>11. CASE Discard(t)
  BY <1>11, MapDiscard
<1>12. ASSUME NEW pc \in InCall, GoesOn(t, pc), uid' = uid, map' = map, objs' = objs, Ordered' => Ordered
       PROVE  MapInv'
  BY <1>12, MapGoesOn
<1>13. CASE PrBegin(t)
  BY <1>12, <1>13, PrBeginStep, SameKeeps DEF PrBegin, Keeps, InCall, Programming
<1>14. CASE PrEnd(t)
  BY <1>12, <1>14, PrEndStep, SameKeeps DEF PrEnd, Keeps, InCall, Programming
<1>15. CASE PrNot(t)
  <2>1. \E pc \in {"save", "programmed"} : GoesOn(t, pc)
    BY <1>15, PrNotStep
  <2>. QED
    BY <1>12, <1>15, <2>1, SameKeeps DEF PrNot, Keeps, InCall, Programming
<1>16. CASE SaveControl(t)
  <2>1. \E pc \in {"jtag", "delete"} : GoesOn(t, pc)
    BY <1>16, SaveControlStep
  <2>. QED
    BY <1>12, <1>16, <2>1, SameKeeps DEF SaveControl, Keeps, InCall, Programming
<1>17. CASE Jtag(t)
  BY <1>12, <1>17, JtagStep, SameKeeps DEF Jtag, Keeps, InCall, Programming
<1>18. CASE LoadControl(t)
  <2>1. \E pc \in {"pr", "programmed"} : GoesOn(t, pc)
    BY <1>18, LoadControlStep
  <2>2. uid' = uid /\ map' = map /\ objs' = objs /\ (Ordered' => Ordered)
    BY <1>18, SpoilKeeps DEF LoadControl, Keeps
  <2>. QED
    BY <1>12, <2>1, <2>2 DEF InCall, Programming
<1>19. CASE Programmed(t)
  <2>1. /\ thr[t].obj \in Objs /\ objs' = [objs EXCEPT ![thr[t].obj] = objs'[thr[t].obj]]
        /\ objs'[thr[t].obj].handle = objs[thr[t].obj].handle
        /\ thr[t].failed => Turns(t, "idle", 0, 0)
        /\ ~ thr[t].failed => GoesOn(t, "delete")
    BY <1>19, ProgrammedStep
  <2>2. \A o \in Objs : objs'[o].handle = objs[o].handle
    BY <2>1 DEF TypeInv
  <2>3. uid' = uid /\ map' = map /\ (Ordered' => Ordered)
    BY <1>19, SpoilKeeps DEF Programmed, Keeps
  <2>4. CASE ~ thr[t].failed
    BY <2>1, <2>2, <2>3, <2>4, MapGoesOn DEF InCall
  <2>5. CASE thr[t].failed
    <3>1. /\ \A u \in Threads : u # t => thr'[u] = thr[u]
          /\ thr'[t].pc = "idle" /\ thr'[t].handle = 0
      BY <2>1, <2>5 DEF Turns
    <3>2. \A u \in Threads : Opening(u)' => Opening(u) /\ thr'[u].obj = thr[u].obj
      BY <3>1 DEF Opening
    <3>. QED
      BY <2>2, <2>3, <3>1, <3>2, MapSame
  <2>. QED
    BY <2>4, <2>5
<1>. QED
  BY <1>1, <1>2, <1>3, <1>4, <1>5, <1>6, <1>7, <1>8, <1>9, <1>10, <1>11, <1>13, <1>14,
     <1>15, <1>16, <1>17, <1>18, <1>19 DEF Calls

\* Every other step leaves map, objects and calls alone.
Others == \/ \E t \in Threads : SignalTaken(t) \/ Callback(t) \/ UnmaskKernel(t)
          \/ \E r \in Regions : KernelDone(r)
          \/ Irq \/ CtrlC \/ FreeAll \/ UNCHANGED vars

LEMMA NextSplit ==
  ASSUME [Next]_vars
  PROVE  (\E t \in Threads : Calls(t)) \/ Others
BY DEF Next, Others

LEMMA OthersKeep ==
  ASSUME Others
  PROVE  /\ uid' = uid /\ map' = map /\ thr' = thr /\ objs' = objs /\ launched' = launched
         /\ Keeps({})
<1>1. uid' = uid /\ map' = map /\ thr' = thr /\ objs' = objs /\ launched' = launched
  BY DEF Others, SignalTaken, Callback, UnmaskKernel, KernelDone, Irq, CtrlC, FreeAll, vars
<1>2. ghost' = ghost \/ Spoil({"deaf"})
  BY DEF Others, SignalTaken, Callback, UnmaskKernel, KernelDone, Irq, CtrlC, FreeAll, vars
<1>. QED
  BY <1>1, <1>2, SameKeeps, SpoilKeeps DEF Keeps

LEMMA MapNext ==
  ASSUME CoreInv, MapInv, [Next]_vars
  PROVE  MapInv'
<1>1. CASE \E t \in Threads : Calls(t)
  BY <1>1, MapCalls
<1>2. CASE Others
  BY <1>2, OthersKeep, MapUnchanged DEF Keeps
<1>. QED
  BY <1>1, <1>2, NextSplit

LEMMA MapInit == Init => MapInv
<1>. SUFFICES ASSUME Init PROVE MapInv
  OBVIOUS
<1>1. (\A t \in Threads : thr[t].pc = "idle" /\ thr[t].handle = 0) /\ \A h \in Objs : map[h] = 0
  BY IdleFacts DEF Init
<1>. QED
  BY <1>1 DEF MapInv, OneOpens, NumberIsNew, SlotOfCall, SlotNamesDevice, Opening

LEMMA MapInvariant == Spec => [](CoreInv /\ MapInv)
<1>1. CoreInv /\ MapInv /\ [Next]_vars => (CoreInv /\ MapInv)'
  BY CoreNext, MapNext
<1>. QED
  BY <1>1, CoreInit, MapInit, PTL DEF Spec

\* As long as calls that change the handle map do not overlap, a handle names
\* the device object that was built for it, and a freed object stays in the map
\* only inside the call that freed it (aocl_mmd_open and aocl_mmd_close).
THEOREM MmdHandleNamesItsDevice == Spec => []HandleNamesItsDevice
<1>1. CoreInv /\ MapInv => HandleNamesItsDevice
  <2>. SUFFICES ASSUME CoreInv, MapInv, Ordered, NEW h \in Mapped
                PROVE  /\ objs[map[h]].handle = h
                       /\ objs[map[h]].state = "freed" =>
                            \E t \in Threads : thr[t].pc = "discard" /\ thr[t].handle = h
    BY DEF HandleNamesItsDevice, Ordered
  <2>1. h \in Objs /\ map[h] # 0
    BY DEF Mapped, CoreInv, TypeInv
  <2>2. objs[map[h]].handle = h
    BY <2>1 DEF MapInv, SlotNamesDevice
  <2>3. ASSUME objs[map[h]].state = "freed"
        PROVE  \E t \in Threads : thr[t].pc = "discard" /\ thr[t].handle = h
    <3>1. PICK t \in Threads : thr[t].obj = map[h] /\ thr[t].pc \in {"closing", "discard"}
      BY <2>1, <2>3 DEF CoreInv, Owned, GoingIsInCall
    <3>2. thr[t].pc = "discard"
      BY <2>1, <2>3, <3>1, StateInFacts DEF CoreInv, Owned, ObjectOfCall
    <3>3. thr[t].handle = h
      BY <2>1, <3>1 DEF CoreInv, Owned, CallKnowsSlot
    <3>. QED
      BY <3>2, <3>3
  <2>. QED
    BY <2>2, <2>3
<1>. QED
  BY <1>1, MapInvariant, PTL

-----------------------------------------------------------------------------
(* Ctrl-C.                                                                 *)

LEMMA CtrlCSame ==
  ASSUME CtrlCInv, NEW marks, Keeps(marks),
         end' \in {"stopping", "exited"} => end \in {"stopping", "exited"},
         \A u \in Threads : thr'[u].pc \in Programming =>
           /\ thr[u].pc \in Programming /\ thr'[u].obj = thr[u].obj
           /\ objs'[thr[u].obj].prog = objs[thr[u].obj].prog
  PROVE  CtrlCInv'
<1>1. Marked'
  BY DEF CtrlCInv, Marked
<1>2. ASSUME end' \in {"stopping", "exited"}, Ordered', "late" \notin ghost'
      PROVE  \A t \in Threads : thr'[t].pc \notin Programming
  BY <1>2 DEF CtrlCInv, Keeps
<1>. QED
  BY <1>1, <1>2 DEF CtrlCInv

\* A step of thread t that changes one object at most, which no other call is
\* about, and that does not begin to program.
LEMMA CtrlCOwn ==
  ASSUME CoreInv, CtrlCInv, NEW marks, Keeps(marks), end' = end, NEW t \in Threads,
         \A u \in Threads \ {t} : thr'[u] = thr[u],
         thr'[t].pc \in Programming => thr[t].pc \in Programming /\ thr'[t].obj = thr[t].obj /\ objs' = objs,
         NEW o, \A u \in Threads \ {t} : thr[u].obj # o,
         \A p \in Objs : p # o => objs'[p] = objs[p]
  PROVE  CtrlCInv'
<1>1. \A u \in Threads : thr[u].pc \in Programming => thr[u].obj \in Objs
  BY CallTypes DEF CoreInv, TypeInv, InCall
<1>. QED
  BY <1>1, CtrlCSame

LEMMA CtrlCCalls ==
  ASSUME CoreInv, CtrlCInv, NEW t \in Threads, Calls(t)
  PROVE  CtrlCInv'
<1>. USE DEF CoreInv
<1>1. ASSUME objs' = objs, end' = end, NEW marks, Keeps(marks), NEW pc, NEW o, NEW h, Turns(t, pc, o, h),
             pc \in Programming => thr[t].pc \in Programming /\ o = thr[t].obj
      PROVE  CtrlCInv'
  BY <1>1, CtrlCSame DEF Turns
<1>2. CASE OpenNumber(t)
  BY <1>1, <1>2, OpenNumberStep, SpoilKeeps DEF OpenNumber, Programming
<1>3. CASE OpenConstruct(t)
  <2>1. PICK o \in Objs, sound \in BOOLEAN :
          /\ objs[o].state = "unbuilt" /\ objs' = [objs EXCEPT ![o] = objs'[o]]
          /\ Turns(t, IF sound THEN "built" ELSE "signalled", o, 0)
    BY <1>3, OpenConstructStep
  <2>2. \A p \in Objs : p # o => objs'[p] = objs[p]
    BY <2>1 DEF TypeInv
  <2>3. \A u \in Threads : thr[u].obj # o
    BY <2>1, StateInFacts, ObjsRange DEF Owned, ObjectOfCall, StateIn
  <2>4. PICK marks : Keeps(marks)
    BY <1>3, SpoilKeeps DEF OpenConstruct
  <2>5. thr'[t].pc \notin Programming /\ \A u \in Threads \ {t} : thr'[u] = thr[u]
    BY <2>1 DEF Turns, Programming
  <2>6. end' = end
    BY <1>3 DEF OpenConstruct
  <2>. QED
    BY <2>2, <2>3, <2>4, <2>5, <2>6, CtrlCOwn
<1>4. CASE OpenSignal(t)
  BY <1>1, <1>4, OpenSignalStep, SameKeeps DEF OpenSignal, Programming
<1>5. CASE OpenRecord(t)
  BY <1>1, <1>5, OpenRecordStep, SpoilKeeps DEF OpenRecord, Programming
<1>6. ASSUME NEW h \in Mapped, Close(t, h) PROVE CtrlCInv'
  BY <1>1, <1>6, CloseStep, SpoilKeeps DEF Close, Programming
<1>7. ASSUME NEW h \in Mapped, SetHandler(t, h) PROVE CtrlCInv'
  <2>1. /\ map[h] \in Objs /\ objs' = [objs EXCEPT ![map[h]] = objs'[map[h]]]
        /\ objs'[map[h]].prog = objs[map[h]].prog
    BY <1>7, SetHandlerStep
  <2>2. \A o \in Objs : objs'[o].prog = objs[o].prog
    BY <2>1 DEF TypeInv
  <2>3. \A u \in Threads : thr[u].pc \in Programming => thr[u].obj \in Objs
    BY CallTypes DEF TypeInv, InCall
  <2>. QED
    BY <1>7, <2>2, <2>3, CtrlCSame, SameKeeps DEF SetHandler
<1>8. ASSUME NEW h \in Mapped, NEW r \in Regions, Launch(t, h, r) PROVE CtrlCInv'
  BY <1>8, CtrlCSame, SameKeeps DEF Launch
<1>9. ASSUME NEW h \in Mapped, NEW i \in Images, NEW r \in Regions, Reprogram(t, h, i, r) PROVE CtrlCInv'
  <2>1. /\ h \in Objs /\ map[h] # 0 /\ map[h] \in Objs /\ thr[t].pc = "idle"
        /\ \A u \in Threads \ {t} : thr[u].handle # h
        /\ objs' = [objs EXCEPT ![map[h]] = objs'[map[h]]] /\ objs'[map[h]].prog
        /\ Turns(t, "pr", map[h], h)
    BY <1>9, ReprogramStep
  <2>2. \A u \in Threads : thr[u].obj # map[h]
    BY <2>1, SlotIsFree
  <2>3. \A p \in Objs : p # map[h] => objs'[p] = objs[p]
    BY <2>1 DEF TypeInv
  <2>4. \A u \in Threads : thr[u].pc \in Programming => thr[u].obj \in Objs
    BY CallTypes DEF TypeInv, InCall
  <2>5. Marked'
    BY <2>1, <2>2, <2>3, <2>4 DEF CtrlCInv, Marked, Turns
  <2>6. ASSUME end' \in {"stopping", "exited"}, Ordered', "late" \notin ghost' PROVE FALSE
    <3>1. end = "stopping"
      BY <1>9, <2>6 DEF Reprogram, At, Steps, Runs
    <3>2. Keeps(Overlap(t) \cup Careless(t) \cup {"late"})
      BY <1>9, <3>1, SpoilKeeps DEF Reprogram
    <3>. QED
      BY <2>6, <3>2 DEF Keeps
  <2>. QED
    BY <2>5, <2>6 DEF CtrlCInv
<1>10. CASE DeleteParts(t)
  <2>1. /\ objs' = [objs EXCEPT ![thr[t].obj] = objs'[thr[t].obj]] /\ thr[t].obj \in Objs
        /\ GoesOn(t, "closing")
    BY <1>10, DeletePartsStep
  <2>2. \A p \in Objs : p # thr[t].obj => objs'[p] = objs[p]
    BY <2>1 DEF TypeInv
  <2>3. \A u \in Threads \ {t} : thr[u].obj # thr[t].obj
    BY <2>1, ObjsRange DEF Owned, OneCall
  <2>4. Keeps({})
    BY <1>10, SameKeeps DEF DeleteParts
  <2>5. thr'[t].pc \notin Programming /\ \A u \in Threads \ {t} : thr'[u] = thr[u]
    BY <2>1 DEF GoesOn, Turns, Programming
  <2>6. end' = end
    BY <1>10 DEF DeleteParts
  <2>. QED
    BY <2>2, <2>3, <2>4, <2>5, <2>6, CtrlCOwn
<1>11. CASE DeleteDone(t)
  <2>1. /\ objs' = [objs EXCEPT ![thr[t].obj] = objs'[thr[t].obj]] /\ thr[t].obj \in Objs
        /\ GoesOn(t, "discard")
    BY <1>11, DeleteDoneStep
  <2>2. \A p \in Objs : p # thr[t].obj => objs'[p] = objs[p]
    BY <2>1 DEF TypeInv
  <2>3. \A u \in Threads \ {t} : thr[u].obj # thr[t].obj
    BY <2>1, ObjsRange DEF Owned, OneCall
  <2>4. Keeps({})
    BY <1>11, LessDeafKeeps DEF DeleteDone
  <2>5. thr'[t].pc \notin Programming /\ \A u \in Threads \ {t} : thr'[u] = thr[u]
    BY <2>1 DEF GoesOn, Turns, Programming
  <2>6. end' = end
    BY <1>11 DEF DeleteDone
  <2>. QED
    BY <2>2, <2>3, <2>4, <2>5, <2>6, CtrlCOwn
<1>12. CASE Discard(t)
  <2>1. \E pc \in {"idle", "reopen"} : Turns(t, pc, 0, 0)
    BY <1>12, DiscardStep
  <2>. QED
    BY <1>1, <1>12, <2>1, SameKeeps DEF Discard, Programming
<1>13. ASSUME objs' = objs, end' = end, NEW marks, Keeps(marks), NEW pc, GoesOn(t, pc),
              pc \in Programming => thr[t].pc \in Programming
       PROVE  CtrlCInv'
  BY <1>1, <1>13 DEF GoesOn
<1>14. CASE PrBegin(t)
  BY <1>13, <1>14, PrBeginStep, SameKeeps DEF PrBegin, Programming
<1>15. CASE PrEnd(t)
  BY <1>13, <1>15, PrEndStep, SameKeeps DEF PrEnd, Programming
<1>16. CASE PrNot(t)
  <2>1. thr[t].pc = "pr" /\ \E pc \in {"save", "programmed"} : GoesOn(t, pc)
    BY <1>16, PrNotStep
  <2>. QED
    BY <1>13, <1>16, <2>1, SameKeeps DEF PrNot, Programming
<1>17. CASE SaveControl(t)
  <2>1. thr[t].pc = "save" /\ \E pc \in {"jtag", "delete"} : GoesOn(t, pc)
    BY <1>17, SaveControlStep
  <2>. QED
    BY <1>13, <1>17, <2>1, SameKeeps DEF SaveControl, Programming
<1>18. CASE Jtag(t)
  BY <1>13, <1>18, JtagStep, SameKeeps DEF Jtag, Programming
<1>19. CASE LoadControl(t)
  <2>1. thr[t].pc = "load" /\ \E pc \in {"pr", "programmed"} : GoesOn(t, pc)
    BY <1>19, LoadControlStep
  <2>2. PICK marks : Keeps(marks)
    BY <1>19, SpoilKeeps DEF LoadControl
  <2>. QED
    BY <1>13, <1>19, <2>1, <2>2 DEF LoadControl, Programming
<1>20. CASE Programmed(t)
  <2>1. /\ thr[t].obj \in Objs /\ objs' = [objs EXCEPT ![thr[t].obj] = objs'[thr[t].obj]]
        /\ thr[t].failed => Turns(t, "idle", 0, 0)
        /\ ~ thr[t].failed => GoesOn(t, "delete")
    BY <1>20, ProgrammedStep
  <2>2. \A p \in Objs : p # thr[t].obj => objs'[p] = objs[p]
    BY <2>1 DEF TypeInv
  <2>3. \A u \in Threads \ {t} : thr[u].obj # thr[t].obj
    BY <2>1, ObjsRange DEF Owned, OneCall
  <2>4. PICK marks : Keeps(marks)
    BY <1>20, SpoilKeeps DEF Programmed
  <2>5. thr'[t].pc \notin Programming /\ \A u \in Threads \ {t} : thr'[u] = thr[u]
    BY <2>1 DEF GoesOn, Turns, Programming
  <2>6. end' = end
    BY <1>20 DEF Programmed
  <2>. QED
    BY <2>2, <2>3, <2>4, <2>5, <2>6, CtrlCOwn
<1>. QED
  BY <1>2, <1>3, <1>4, <1>5, <1>6, <1>7, <1>8, <1>9, <1>10, <1>11, <1>12, <1>14,
     <1>15, <1>16, <1>17, <1>18, <1>19, <1>20 DEF Calls

LEMMA CtrlCNext ==
  ASSUME CoreInv, MapInv, CtrlCInv, [Next]_vars
  PROVE  CtrlCInv'
<1>1. CASE \E t \in Threads : Calls(t)
  BY <1>1, CtrlCCalls
<1>2. CASE CtrlC
  <2>1. Ordered => \A t \in Threads : thr[t].pc \notin Programming
    <3>. SUFFICES ASSUME Ordered, NEW t \in Threads, thr[t].pc \in Programming PROVE FALSE
      OBVIOUS
    <3>1. thr[t].handle \in Objs /\ thr[t].obj # 0
      BY CallTypes DEF CoreInv, TypeInv, InCall
    <3>2. map[thr[t].handle] = thr[t].obj
      BY <3>1, ObjsRange DEF MapInv, SlotOfCall
    <3>3. thr[t].handle \in Mapped
      BY <3>1, <3>2 DEF Mapped, CoreInv, TypeInv
    <3>. QED
      BY <1>2, <3>2, <3>3 DEF CtrlC, AnyProgrammed, CtrlCInv, Marked
  <2>. QED
    BY <1>2, <2>1 DEF CtrlC, CtrlCInv, Marked, Ordered
<1>3. CASE Others /\ ~ CtrlC
  <2>1. end' \in {"stopping", "exited"} => end \in {"stopping", "exited"}
    BY <1>3 DEF Others, SignalTaken, Callback, UnmaskKernel, KernelDone, Irq, FreeAll, vars
  <2>. QED
    BY <1>3, <2>1, OthersKeep, CtrlCSame
<1>. QED
  BY <1>1, <1>2, <1>3, NextSplit

\* Ctrl-C does not end the process while a device is being programmed, unless
\* the programming began after the handler had looked, or calls overlapped
\* (the signal handler of acl_pcie.cpp).
THEOREM MmdCtrlCSparesProgramming == Spec => []CtrlCSparesProgramming
<1>1. Init => CtrlCInv
  <2>. SUFFICES ASSUME Init PROVE CtrlCInv
    OBVIOUS
  <2>1. \A t \in Threads : thr[t].pc = "idle"
    BY IdleFacts DEF Init
  <2>. QED
    BY <2>1 DEF CtrlCInv, Marked, Programming
<1>2. CoreInv /\ MapInv /\ CtrlCInv /\ [Next]_vars => CtrlCInv'
  BY CtrlCNext
<1>3. CtrlCInv => CtrlCSparesProgramming
  BY DEF CtrlCInv, CtrlCSparesProgramming, Ordered, Programming
<1>. QED
  BY <1>1, <1>2, <1>3, MapInvariant, PTL DEF Spec

-----------------------------------------------------------------------------
(* One handle on the board.                                                *)

LEMMA NoFileOpen ==
  ASSUME CoreInv
  PROVE  /\ drv.open = 0 <=> OpenFiles = {}
         /\ OneFile /\ OpenFiles # {} => drv.open = 1
         /\ ~ (drv.open > 0) => drv.open = 0
<1>1. IsFiniteSet(OpenFiles)
  BY ObjsFinite, FS_Subset DEF OpenFiles
<1>2. Cardinality(OpenFiles) \in Nat /\ (Cardinality(OpenFiles) = 0 <=> OpenFiles = {})
  BY <1>1, FS_EmptySet, FS_CardinalityType
<1>3. ASSUME OneFile, OpenFiles # {} PROVE Cardinality(OpenFiles) = 1
  <2>1. PICK o : OpenFiles = {o}
    BY <1>3 DEF OneFile
  <2>. QED
    BY <2>1, FS_Singleton
<1>. QED
  BY <1>2, <1>3 DEF CoreInv, Owned, CountIsRight

LEMMA FilesSame ==
  ASSUME \A o \in Objs : objs'[o].state = objs[o].state
  PROVE  OpenFiles' = OpenFiles
BY DEF OpenFiles

\* The object of a call is open, unless the call has just freed it.
LEMMA FileOfCall ==
  ASSUME CoreInv, NEW t \in Threads, thr[t].obj # 0, thr[t].pc # "discard"
  PROVE  /\ thr[t].obj \in OpenFiles
         /\ thr[t].pc # "closing" => Live(thr[t].obj)
<1>1. thr[t].obj \in Objs
  BY CallTypes DEF CoreInv, TypeInv
<1>2. objs[thr[t].obj].state = StateIn(thr[t].pc)
  BY DEF CoreInv, Owned, ObjectOfCall
<1>. QED
  BY <1>1, <1>2, StateInFacts DEF OpenFiles, Live

\* While one file is open, one call is about an object.
LEMMA CallIsAlone ==
  ASSUME CoreInv, OneFile, NoneLeft, NEW t \in Threads, thr[t].obj # 0, thr[t].pc # "discard"
  PROVE  /\ thr[t].obj \in OpenFiles /\ OpenFiles = {thr[t].obj} /\ drv.open = 1
         /\ \A u \in Threads \ {t} : thr[u].obj = 0
<1>1. thr[t].obj \in OpenFiles
  BY FileOfCall
<1>2. OpenFiles = {thr[t].obj} /\ drv.open = 1
  BY <1>1, NoFileOpen DEF OneFile
<1>3. ASSUME NEW u \in Threads \ {t}, thr[u].obj # 0 PROVE FALSE
  <2>1. thr[u].pc # "discard"
    BY <1>1, <1>3 DEF NoneLeft
  <2>2. thr[u].obj = thr[t].obj
    BY <1>2, <1>3, <2>1, FileOfCall
  <2>. QED
    BY <1>3, <2>2 DEF CoreInv, Owned, OneCall
<1>. QED
  BY <1>1, <1>2, <1>3

LEMMA AloneSame ==
  ASSUME CoreInv, AloneInv, NEW marks, Keeps(marks), OpenFiles' \subseteq OpenFiles,
         hw'.made = hw.made, hw'.quartus = hw.quartus,
         \A u \in Threads :
           /\ thr'[u].pc = "discard" => thr[u].pc = "discard"
           /\ thr'[u].pc = "reconfiguring" => thr[u].pc = "reconfiguring" /\ thr'[u].image = thr[u].image
  PROVE  AloneInv'
<1>. SUFFICES ASSUME Alone' PROVE (OneFile /\ NoneLeft /\ Labelled)'
  BY DEF AloneInv
<1>1. OneFile /\ NoneLeft /\ Labelled
  BY DEF AloneInv, Keeps
<1>2. OneFile' /\ NoneLeft'
  BY <1>1 DEF OneFile, NoneLeft
<1>3. "relabelled" \notin ghost' => "relabelled" \notin ghost
  BY DEF Keeps
<1>4. Labelled'
  BY <1>1, <1>3 DEF Labelled
<1>. QED
  BY <1>2, <1>4

LEMMA AloneTurns ==
  ASSUME CoreInv, AloneInv, NEW marks, Keeps(marks), OpenFiles' \subseteq OpenFiles,
         hw'.made = hw.made, hw'.quartus = hw.quartus,
         NEW t \in Threads, NEW pc, NEW o, NEW h, Turns(t, pc, o, h),
         pc \notin {"discard", "reconfiguring"}
  PROVE  AloneInv'
BY AloneSame DEF Turns

LEMMA AloneOpenConstruct ==
  ASSUME CoreInv, AloneInv, NEW t \in Threads, OpenConstruct(t)
  PROVE  AloneInv'
<1>. SUFFICES ASSUME Alone' PROVE (OneFile /\ NoneLeft /\ Labelled)'
  BY DEF AloneInv
<1>. DEFINE marks == Overlap(t) \cup (IF drv.open > 0 THEN {"shared"} ELSE {})
<1>1. Keeps(marks)
  BY SpoilKeeps DEF OpenConstruct
<1>2. OneFile /\ NoneLeft /\ Labelled
  BY <1>1 DEF AloneInv, Keeps
<1>3. drv.open = 0 /\ OpenFiles = {}
  <2>1. ~ (drv.open > 0)
    BY <1>1 DEF Keeps
  <2>. QED
    BY <2>1, NoFileOpen
<1>4. \A u \in Threads \ {t} : ~ InMap(u)
  BY <1>1 DEF Keeps, Overlap
<1>5. PICK o \in Objs, sound \in BOOLEAN :
        /\ objs' = [objs EXCEPT ![o] = objs'[o]]
        /\ Turns(t, IF sound THEN "built" ELSE "signalled", o, 0)
  BY OpenConstructStep DEF CoreInv
<1>6. /\ \A u \in Threads \ {t} : thr'[u] = thr[u]
      /\ thr'[t].pc \in {"built", "signalled"}
  BY <1>5 DEF Turns
<1>7. \A p \in Objs : p # o => objs'[p] = objs[p]
  BY <1>5 DEF CoreInv, TypeInv
<1>8. OpenFiles' \subseteq {o}
  BY <1>3, <1>7 DEF OpenFiles
<1>9. OneFile'
  BY <1>8 DEF OneFile
<1>10. NoneLeft'
  BY <1>4, <1>6 DEF NoneLeft, InMap
<1>11. hw'.made = hw.made /\ hw'.quartus = hw.quartus
  BY DriverOpenFacts, UnmaskFacts DEF OpenConstruct, BoardOpen, CoreInv, TypeInv
<1>12. thr[t].pc = "numbered"
  BY OpenConstructStep DEF CoreInv
<1>13. "relabelled" \notin ghost' => "relabelled" \notin ghost
  BY <1>1 DEF Keeps
<1>14. Labelled'
  BY <1>2, <1>6, <1>11, <1>12, <1>13 DEF Labelled
<1>. QED
  BY <1>9, <1>10, <1>14

LEMMA AloneDeleteDone ==
  ASSUME CoreInv, AloneInv, NEW t \in Threads, DeleteDone(t)
  PROVE  /\ AloneInv'
         /\ Alone' => OpenFiles' = {} /\ drv.open = 1
<1>1. Keeps({})
  BY LessDeafKeeps DEF DeleteDone
<1>2. /\ thr[t].pc = "closing" /\ thr[t].obj \in Objs
      /\ objs' = [objs EXCEPT ![thr[t].obj] = objs'[thr[t].obj]]
      /\ objs'[thr[t].obj].state = "freed" /\ GoesOn(t, "discard")
  BY DeleteDoneStep DEF CoreInv
<1>. SUFFICES ASSUME Alone'
              PROVE  (OneFile /\ NoneLeft /\ Labelled)' /\ OpenFiles' = {} /\ drv.open = 1
  BY DEF AloneInv
<1>3. OneFile /\ NoneLeft /\ Labelled
  BY <1>1 DEF AloneInv, Keeps
<1>4. PICK o \in Objs : o = thr[t].obj
  BY <1>2
<1>5. OpenFiles = {o} /\ drv.open = 1
  BY <1>2, <1>3, <1>4, ObjsRange, CallIsAlone
<1>6. objs'[o].state = "freed" /\ \A p \in Objs : p # o => objs'[p] = objs[p]
  BY <1>2, <1>4 DEF CoreInv, TypeInv
<1>7. OpenFiles' = {}
  BY <1>5, <1>6 DEF OpenFiles
<1>8. OneFile' /\ NoneLeft'
  BY <1>7 DEF OneFile, NoneLeft
<1>9. hw'.made = hw.made /\ hw'.quartus = hw.quartus
  BY MaskFacts DEF DeleteDone, BoardClose, CoreInv, TypeInv
<1>10. /\ \A u \in Threads \ {t} : thr'[u] = thr[u]
       /\ thr'[t].pc = "discard"
  BY <1>2 DEF GoesOn, Turns
<1>11. "relabelled" \notin ghost' => "relabelled" \notin ghost
  BY <1>1 DEF Keeps
<1>12. Labelled'
  BY <1>2, <1>3, <1>9, <1>10, <1>11 DEF Labelled
<1>. QED
  BY <1>5, <1>7, <1>8, <1>12

\* The three steps of programming that Labelled is about.
LEMMA AlonePrograms ==
  ASSUME CoreInv, AloneInv, NEW t \in Threads, PrBegin(t) \/ Jtag(t) \/ LoadControl(t)
  PROVE  AloneInv'
<1>. SUFFICES ASSUME Alone' PROVE (OneFile /\ NoneLeft /\ Labelled)'
  BY DEF AloneInv
<1>1. PICK marks : Keeps(marks) /\ (LoadControl(t) => marks = IF Labels(t) /\ hw.made # thr[t].image.quartus THEN {"relabelled"} ELSE {})
  BY SameKeeps, SpoilKeeps DEF PrBegin, Jtag, LoadControl
<1>2. OneFile /\ NoneLeft /\ Labelled
  BY <1>1 DEF AloneInv, Keeps
<1>3. objs' = objs
  BY DEF PrBegin, Jtag, LoadControl
<1>4. PICK pc \in PCs : GoesOn(t, pc) /\ pc # "discard"
  BY PrBeginStep, JtagStep, LoadControlStep DEF CoreInv, PCs, InCall, Programming
<1>5. thr[t].pc \in {"pr", "jtag", "load"} /\ thr[t].obj # 0
  <2>1. thr[t].pc \in {"pr", "jtag", "load"}
    BY PrBeginStep, JtagStep, LoadControlStep DEF CoreInv
  <2>. QED
    BY <2>1, CallTypes DEF CoreInv, TypeInv, InCall, Programming
<1>6. \A u \in Threads \ {t} : thr[u].pc \notin {"load", "reconfiguring"}
  <2>1. \A u \in Threads \ {t} : thr[u].obj = 0
    BY <1>2, <1>5, CallIsAlone
  <2>. QED
    BY <2>1, CallTypes DEF CoreInv, TypeInv, InCall, Programming
<1>7. OneFile' /\ NoneLeft'
  BY <1>2, <1>3, <1>4 DEF OneFile, NoneLeft, OpenFiles, GoesOn, Turns
<1>8. \A u \in Threads \ {t} : thr'[u].pc # "reconfiguring"
  BY <1>4, <1>6 DEF GoesOn, Turns
<1>9. "relabelled" \notin ghost' => "relabelled" \notin ghost \cup marks
  BY <1>1 DEF Keeps
<1>10. CASE PrBegin(t)
  <2>1. /\ hw' = hw /\ thr'[t].pc = "reconfiguring" /\ thr'[t].image = thr[t].image
        /\ ~ SkipVersion => Trunk[hw.quartus] = Trunk[thr[t].image.quartus]
        /\ thr[t].image.quartus \in Versions
    BY <1>10, PrBeginStep DEF CoreInv, PrBegin, GoesOn, Turns, Versions
  <2>2. ~ SkipVersion => hw.quartus # "blank"
    BY <2>1, VersionAssumption
  <2>. QED
    BY <1>2, <1>7, <1>8, <1>9, <2>1, <2>2 DEF Labelled
<1>11. CASE Jtag(t)
  <2>1. /\ thr'[t].pc = "load"
        /\ hw'.quartus = "blank" \/ (hw'.quartus = hw.quartus /\ hw'.made = hw.made)
    BY <1>11, JtagStep DEF CoreInv, GoesOn, Turns
  <2>. QED
    BY <1>2, <1>7, <1>8, <1>9, <2>1 DEF Labelled
<1>12. CASE LoadControl(t)
  <2>1. /\ thr'[t].pc \in {"pr", "programmed"}
        /\ hw'.made = hw.made
        /\ hw'.quartus = IF Labels(t) THEN thr[t].image.quartus ELSE hw.quartus
    BY <1>12, LoadControlStep DEF CoreInv, GoesOn, Turns
  <2>. QED
    BY <1>1, <1>2, <1>7, <1>8, <1>9, <1>12, <2>1 DEF Labelled
<1>. QED
  BY <1>10, <1>11, <1>12

LEMMA AloneCalls ==
  ASSUME CoreInv, AloneInv, NEW t \in Threads, Calls(t)
  PROVE  AloneInv'
<1>. USE DEF CoreInv
<1>0. ASSUME OpenFiles' \subseteq OpenFiles, hw'.made = hw.made, hw'.quartus = hw.quartus,
             NEW marks, Keeps(marks), NEW pc, NEW o, NEW h, Turns(t, pc, o, h),
             pc \notin {"discard", "reconfiguring"}
      PROVE  AloneInv'
  BY <1>0, AloneTurns
<1>1. CASE OpenNumber(t)
  BY <1>0, <1>1, OpenNumberStep, SpoilKeeps DEF OpenNumber, OpenFiles
<1>2. CASE OpenConstruct(t)
  BY <1>2, AloneOpenConstruct
<1>3. CASE OpenSignal(t)
  BY <1>0, <1>3, OpenSignalStep, SameKeeps DEF OpenSignal, OpenFiles
<1>4. CASE OpenRecord(t)
  BY <1>0, <1>4, OpenRecordStep, SpoilKeeps DEF OpenRecord, OpenFiles
<1>5. ASSUME NEW h \in Mapped, Close(t, h) PROVE AloneInv'
  <2>1. thr[t].pc = "idle" /\ Turns(t, "delete", map[h], h)
    BY <1>5, CloseStep
  <2>. QED
    BY <1>0, <1>5, <2>1, SpoilKeeps DEF Close, OpenFiles
<1>6. ASSUME NEW h \in Mapped, SetHandler(t, h) PROVE AloneInv'
  <2>1. /\ map[h] \in Objs /\ objs' = [objs EXCEPT ![map[h]] = objs'[map[h]]]
        /\ objs'[map[h]].state = objs[map[h]].state
        /\ hw'.made = hw.made /\ hw'.quartus = hw.quartus
    BY <1>6, SetHandlerStep
  <2>2. \A o \in Objs : objs'[o].state = objs[o].state
    BY <2>1 DEF TypeInv
  <2>. QED
    BY <1>6, <2>1, <2>2, FilesSame, AloneSame, SameKeeps DEF SetHandler
<1>7. ASSUME NEW h \in Mapped, NEW r \in Regions, Launch(t, h, r) PROVE AloneInv'
  <2>1. hw'.made = hw.made /\ hw'.quartus = hw.quartus
    BY <1>7, LaunchStep
  <2>. QED
    BY <1>7, <2>1, AloneSame, SameKeeps DEF Launch, OpenFiles
<1>8. ASSUME NEW h \in Mapped, NEW i \in Images, NEW r \in Regions, Reprogram(t, h, i, r) PROVE AloneInv'
  <2>1. /\ map[h] \in Objs /\ objs' = [objs EXCEPT ![map[h]] = objs'[map[h]]]
        /\ objs'[map[h]].state = objs[map[h]].state
        /\ thr[t].pc = "idle" /\ Turns(t, "pr", map[h], h)
    BY <1>8, ReprogramStep
  <2>2. \A o \in Objs : objs'[o].state = objs[o].state
    BY <2>1 DEF TypeInv
  <2>. QED
    BY <1>0, <1>8, <2>1, <2>2, FilesSame, SpoilKeeps DEF Reprogram
<1>9. CASE DeleteParts(t)
  <2>1. /\ thr[t].pc = "delete" /\ thr[t].obj \in Objs
        /\ objs' = [objs EXCEPT ![thr[t].obj] = objs'[thr[t].obj]]
        /\ GoesOn(t, "closing")
    BY <1>9, DeletePartsStep
  <2>2. thr[t].obj \in OpenFiles
    BY <2>1, ObjsRange, FileOfCall
  <2>3. \A o \in Objs : o # thr[t].obj => objs'[o] = objs[o]
    BY <2>1 DEF TypeInv
  <2>4. OpenFiles' \subseteq OpenFiles
    BY <2>2, <2>3 DEF OpenFiles
  <2>. QED
    BY <1>0, <1>9, <2>1, <2>4, SameKeeps DEF DeleteParts, GoesOn
<1>10. CASE DeleteDone(t)
  BY <1>10, AloneDeleteDone
<1>11. CASE Discard(t)
  <2>1. thr[t].pc = "discard"
    BY <1>11, DiscardStep
  <2>2. PICK pc \in {"idle", "reopen"} : Turns(t, pc, 0, 0)
    BY <1>11, DiscardStep
  <2>3. OpenFiles' \subseteq OpenFiles /\ hw' = hw /\ Keeps({})
    BY <1>11, SameKeeps DEF Discard, OpenFiles
  <2>. QED
    BY <2>1, <2>2, <2>3, AloneTurns
<1>12. CASE PrBegin(t) \/ Jtag(t) \/ LoadControl(t)
  BY <1>12, AlonePrograms
<1>13. CASE PrEnd(t)
  <2>1. /\ thr[t].pc = "reconfiguring" /\ hw'.made = hw.made /\ hw'.quartus = hw.quartus
        /\ GoesOn(t, "programmed")
    BY <1>13, PrEndStep
  <2>2. OpenFiles' \subseteq OpenFiles /\ Keeps({})
    BY <1>13, SameKeeps DEF PrEnd, OpenFiles
  <2>. QED
    BY <1>0, <2>1, <2>2 DEF GoesOn
<1>14. CASE PrNot(t)
  <2>1. thr[t].pc = "pr" /\ \E pc \in {"save", "programmed"} : GoesOn(t, pc)
    BY <1>14, PrNotStep
  <2>. QED
    BY <1>0, <1>14, <2>1, SameKeeps DEF PrNot, OpenFiles, GoesOn
<1>15. CASE SaveControl(t)
  <2>1. /\ thr[t].pc = "save" /\ hw'.made = hw.made /\ hw'.quartus = hw.quartus
        /\ \E pc \in {"jtag", "delete"} : GoesOn(t, pc)
    BY <1>15, SaveControlStep
  <2>. QED
    BY <1>0, <1>15, <2>1, SameKeeps DEF SaveControl, OpenFiles, GoesOn
<1>16. CASE Programmed(t)
  <2>1. /\ thr[t].pc = "programmed" /\ thr[t].obj \in Objs
        /\ objs' = [objs EXCEPT ![thr[t].obj] = objs'[thr[t].obj]]
        /\ objs'[thr[t].obj].state = objs[thr[t].obj].state
        /\ thr[t].failed => Turns(t, "idle", 0, 0)
        /\ ~ thr[t].failed => GoesOn(t, "delete")
    BY <1>16, ProgrammedStep
  <2>2. \A o \in Objs : objs'[o].state = objs[o].state
    BY <2>1 DEF TypeInv
  <2>3. \E pc \in {"idle", "delete"} : \E o, h : Turns(t, pc, o, h)
    BY <2>1 DEF GoesOn
  <2>4. PICK marks : Keeps(marks)
    BY <1>16, SpoilKeeps DEF Programmed
  <2>5. hw' = hw /\ OpenFiles' \subseteq OpenFiles
    BY <1>16, <2>2, FilesSame DEF Programmed
  <2>. QED
    BY <1>0, <2>1, <2>3, <2>4, <2>5
<1>. QED
  BY <1>1, <1>2, <1>3, <1>4, <1>5, <1>6, <1>7, <1>8, <1>9, <1>10, <1>11, <1>12, <1>13, <1>14,
     <1>15, <1>16 DEF Calls

LEMMA OthersLabel ==
  ASSUME CoreInv, Others
  PROVE  hw'.made = hw.made /\ hw'.quartus = hw.quartus /\ drv'.open = drv.open
<1>. USE DEF CoreInv
<1>1. ASSUME NEW t \in Threads, SignalTaken(t) \/ Callback(t) \/ UnmaskKernel(t)
      PROVE  hw'.made = hw.made /\ hw'.quartus = hw.quartus /\ drv'.open = drv.open
  BY <1>1, CallbackStep, UnmaskKernelStep DEF SignalTaken
<1>2. ASSUME NEW r \in Regions, KernelDone(r)
      PROVE  hw'.made = hw.made /\ hw'.quartus = hw.quartus /\ drv'.open = drv.open
  BY <1>2, KernelDoneStep DEF KernelDone
<1>3. CASE Irq
  BY <1>3, IrqStep DEF Irq, TaskKnown
<1>4. CASE FreeAll
  BY <1>4, FreeAllStep
<1>. QED
  BY <1>1, <1>2, <1>3, <1>4 DEF Others, CtrlC, vars

LEMMA AloneNext ==
  ASSUME CoreInv, AloneInv, [Next]_vars
  PROVE  AloneInv'
<1>1. CASE \E t \in Threads : Calls(t)
  BY <1>1, AloneCalls
<1>2. CASE Others
  <2>1. OpenFiles' = OpenFiles
    BY <1>2, OthersKeep DEF OpenFiles
  <2>. QED
    BY <1>2, <2>1, OthersKeep, OthersLabel, AloneSame
<1>. QED
  BY <1>1, <1>2, NextSplit

LEMMA AloneInit == Init => AloneInv
<1>. SUFFICES ASSUME Init PROVE AloneInv
  OBVIOUS
<1>1. \A t \in Threads : thr[t].pc = "idle"
  BY IdleFacts DEF Init
<1>2. OpenFiles = {} /\ hw.quartus = hw.made
  BY DEF Init, OpenFiles, Unbuilt
<1>. QED
  BY <1>1, <1>2 DEF AloneInv, OneFile, NoneLeft, Labelled

LEMMA AloneInvariant == Spec => [](CoreInv /\ MapInv /\ AloneInv)
<1>1. CoreInv /\ MapInv /\ AloneInv /\ [Next]_vars => (CoreInv /\ MapInv /\ AloneInv)'
  BY CoreNext, MapNext, AloneNext
<1>. QED
  BY <1>1, CoreInit, MapInit, AloneInit, PTL DEF Spec

\* A region is reconfigured only on a design whose Quartus version differs from
\* the file's in the last character at most, unless the user skips the check, two
\* handles share the board, or a full programming that failed has put its version
\* in the board's RAM (pr_reprogram, quartus_ver_test and reprogram).
THEOREM MmdSameQuartus == Spec => []SameQuartus
<1>1. AloneInv => SameQuartus
  BY DEF AloneInv, SameQuartus, Alone, Labelled
<1>. QED
  BY <1>1, AloneInvariant, PTL

-----------------------------------------------------------------------------
(* A careful host.                                                         *)

\* Careful includes alone, and its invariant is shown of a step from a state
\* that was careful too.
LEMMA CarefulStep ==
  ASSUME AloneInv, CarefulInv, Careful' => Careful, end' = "crashed" => end = "crashed",
         Careful' /\ Careful /\ OneFile /\ NoneLeft /\ Safe => Safe'
  PROVE  CarefulInv'
<1>1. Careful => OneFile /\ NoneLeft
  BY DEF Careful, Alone, AloneInv
<1>. QED
  BY <1>1 DEF CarefulInv

\* While a call is about the open object, or no object is open, the board is
\* at rest and nothing is on the way.
LEMMA QuietInCall ==
  ASSUME CoreInv, OneFile, NoneLeft, Safe, NEW t \in Threads, thr[t].obj # 0, thr[t].pc # "discard"
  PROVE  ~ Busy
<1>1. OpenFiles = {thr[t].obj}
  BY CallIsAlone
<1>2. ~ Served
  BY <1>1 DEF Served, OpenFiles, Live
<1>. QED
  BY <1>2 DEF Safe

LEMMA QuietWhenClosed ==
  ASSUME Safe, OpenFiles = {}
  PROVE  ~ Busy
<1>1. ~ Served
  BY DEF Served, OpenFiles, Live
<1>. QED
  BY <1>1 DEF Safe

\* A step from rest that starts nothing.
LEMMA SafeAtRest ==
  ASSUME Safe, ~ Busy, sigs' = sigs, hand' = hand, hw'.msi => hw.msi,
         hw'.running \subseteq hw.running, hw'.status \subseteq hw.status,
         drv'.open = 0 => ~ hw'.enable,
         hw'.flashing => \E u \in Threads : thr'[u].pc = "jtag"
  PROVE  Safe'
<1>1. /\ hw.running = {} /\ hw.status = {}
      /\ \A u \in Threads : ~ Reporting(u)
  BY DEF Busy
<1>2. ~ hw'.msi
  BY <1>1 DEF Safe, RaisedByLevel
<1>3. \A u \in Threads : ~ Reporting(u)' /\ hand'[u].pc = "none"
  BY <1>1 DEF Reporting
<1>4. ~ Busy'
  BY <1>1, <1>3 DEF Busy
<1>. QED
  BY <1>2, <1>3, <1>4 DEF Safe, RaisedByLevel, MaskedWhenClosed, OneReport, HandIsLive, FlashedInCall

\* A call's step that leaves the board's work and the reports alone.
LEMMA CarefulInCall ==
  ASSUME CoreInv, AloneInv, CarefulInv, Careful' => Careful, end' = end,
         NEW t \in Threads, thr[t].obj # 0, thr[t].pc # "discard",
         sigs' = sigs, hand' = hand, hw'.msi => hw.msi,
         hw'.running \subseteq hw.running, hw'.status \subseteq hw.status,
         hw'.enable => hw.enable /\ drv'.open # 0,
         hw'.flashing => (hw.flashing /\ thr[t].pc # "jtag") \/ thr'[t].pc = "jtag",
         \A u \in Threads \ {t} : thr'[u] = thr[u]
  PROVE  CarefulInv'
<1>1. ASSUME OneFile, NoneLeft, Safe PROVE Safe'
  <2>1. ~ Busy
    BY <1>1, QuietInCall
  <2>2. hw'.flashing => \E u \in Threads : thr'[u].pc = "jtag"
    BY <1>1 DEF Safe, FlashedInCall
  <2>. QED
    BY <1>1, <2>1, <2>2, SafeAtRest
<1>. QED
  BY <1>1, CarefulStep

\* A step that leaves board, reports and objects alone.
LEMMA CarefulSame ==
  ASSUME AloneInv, CarefulInv, Careful' => Careful, end' = "crashed" => end = "crashed",
         hw' = hw, sigs' = sigs, hand' = hand, objs' = objs, drv'.open = drv.open, drv'.task = drv.task,
         \A u \in Threads : /\ thr'[u].obj = thr[u].obj \/ thr'[u].obj = 0
                            /\ thr[u].pc = "jtag" => thr'[u].pc = "jtag"
  PROVE  CarefulInv'
<1>1. ASSUME Safe PROVE Safe'
  <2>1. RaisedByLevel' /\ MaskedWhenClosed'
    BY <1>1 DEF Safe, RaisedByLevel, MaskedWhenClosed
  <2>2. \A u \in Threads : Reporting(u)' <=> Reporting(u)
    BY DEF Reporting
  <2>3. Busy' <=> Busy
    BY <2>2 DEF Busy
  <2>4. Served => Served'
    <3>1. \A o \in Objs : o # 0
      BY ObjsRange
    <3>. QED
      BY <3>1 DEF Served, Live
  <2>5. OneReport'
    BY <1>1, <2>2 DEF Safe, OneReport
  <2>6. HandIsLive'
    BY <1>1 DEF Safe, HandIsLive, Live
  <2>7. FlashedInCall'
    BY <1>1 DEF Safe, FlashedInCall
  <2>. QED
    BY <1>1, <2>1, <2>3, <2>4, <2>5, <2>6, <2>7 DEF Safe
<1>. QED
  BY <1>1, CarefulStep

LEMMA CarefulOpenConstruct ==
  ASSUME CoreInv, AloneInv, CarefulInv, NEW t \in Threads, OpenConstruct(t)
  PROVE  CarefulInv'
<1>. DEFINE marks == Overlap(t) \cup (IF drv.open > 0 THEN {"shared"} ELSE {})
<1>1. Keeps(marks)
  BY SpoilKeeps DEF OpenConstruct
<1>2. sigs' = sigs /\ hand' = hand /\ end' = end
  BY DEF OpenConstruct
<1>3. ASSUME Careful', Safe PROVE Safe'
  <2>1. drv.open = 0 /\ OpenFiles = {}
    <3>1. ~ (drv.open > 0)
      BY <1>1, <1>3 DEF Keeps
    <3>. QED
      BY <3>1, NoFileOpen
  <2>2. ~ Busy
    BY <1>3, <2>1, QuietWhenClosed
  <2>3. /\ ~ hw'.enable /\ hw'.msi = hw.msi /\ hw'.running = hw.running
        /\ hw'.status = hw.status /\ hw'.flashing = hw.flashing
    <3>1. PICK d \in DrvRecords : hw' = UnmaskIrq(hw, d)
      BY <2>1, DriverOpenFacts DEF OpenConstruct, BoardOpen, CoreInv, TypeInv
    <3>. QED
      BY <3>1, UnmaskFacts DEF CoreInv, TypeInv
  <2>4. PICK o \in Objs, sound \in BOOLEAN : Turns(t, IF sound THEN "built" ELSE "signalled", o, 0)
    BY OpenConstructStep DEF CoreInv
  <2>5. thr[t].pc = "numbered"
    BY OpenConstructStep DEF CoreInv
  <2>6. hw'.flashing => \E u \in Threads : thr'[u].pc = "jtag"
    BY <1>3, <2>3, <2>4, <2>5 DEF Safe, FlashedInCall, Turns
  <2>. QED
    BY <1>2, <1>3, <2>2, <2>3, <2>6, SafeAtRest
<1>. QED
  BY <1>1, <1>2, <1>3, CarefulStep DEF Keeps

\* A careful host begins to close or to reprogram at rest.
LEMMA CarefulTakes ==
  ASSUME CoreInv, AloneInv, CarefulInv, end' = end, NEW t \in Threads, hand[t].pc = "none",
         NEW marks, Keeps(marks), Careless(t) \subseteq marks,
         sigs' = sigs, hand' = hand, hw' = hw, drv' = drv,
         \A u \in Threads \ {t} : thr'[u] = thr[u], thr[t].pc = "idle"
  PROVE  CarefulInv'
<1>1. ASSUME Careful', Safe PROVE Safe'
  <2>1. "careless" \notin Careless(t)
    BY <1>1 DEF Keeps
  <2>2. hw.running = {} /\ hw.status = {} /\ drv.task = t
    BY <2>1 DEF Careless
  <2>3. \A u \in Threads : ~ Reporting(u)
    <3>1. \A u \in Threads : hand[u].pc \in {"none", "found", "called"}
      BY DEF CoreInv, TypeInv, HandRecords, HandFields
    <3>. QED
      BY <1>1, <2>2, <3>1 DEF Safe, OneReport, Reporting
  <2>4. ~ Busy
    BY <2>2, <2>3 DEF Busy
  <2>5. hw'.flashing => \E u \in Threads : thr'[u].pc = "jtag"
    BY <1>1 DEF Safe, FlashedInCall
  <2>6. drv'.open = 0 => ~ hw'.enable
    BY <1>1 DEF Safe, MaskedWhenClosed
  <2>. QED
    BY <1>1, <2>4, <2>5, <2>6, SafeAtRest
<1>. QED
  BY <1>1, CarefulStep DEF Keeps

LEMMA CarefulDeleteDone ==
  ASSUME CoreInv, AloneInv, CarefulInv, NEW t \in Threads, DeleteDone(t)
  PROVE  CarefulInv'
<1>1. Keeps({})
  BY LessDeafKeeps DEF DeleteDone
<1>2. sigs' = sigs /\ hand' = hand /\ end' = end
  BY DEF DeleteDone
<1>3. thr[t].pc = "closing" /\ thr[t].obj \in Objs /\ GoesOn(t, "discard")
  BY DeleteDoneStep DEF CoreInv
<1>4. ASSUME Careful', OneFile, NoneLeft, Safe PROVE Safe'
  <2>1. Alone'
    BY <1>4 DEF Careful, Alone
  <2>2. drv.open = 1
    BY <2>1, AloneDeleteDone
  <2>3. /\ ~ hw'.enable /\ ~ hw'.msi /\ hw'.running = hw.running
        /\ hw'.status = hw.status /\ hw'.flashing = hw.flashing
    BY <2>2, MaskFacts DEF DeleteDone, BoardClose, CoreInv, TypeInv
  <2>4. ~ Busy
    BY <1>3, <1>4, ObjsRange, QuietInCall
  <2>5. hw'.flashing => \E u \in Threads : thr'[u].pc = "jtag"
    BY <1>3, <1>4, <2>3 DEF Safe, FlashedInCall, GoesOn, Turns
  <2>. QED
    BY <1>2, <1>4, <2>3, <2>4, <2>5, SafeAtRest
<1>. QED
  BY <1>1, <1>2, <1>4, CarefulStep DEF Keeps

\* The device has no handler yet, so nothing runs.
LEMMA CarefulSetHandler ==
  ASSUME CoreInv, AloneInv, CarefulInv, NEW t \in Threads, NEW h \in Mapped, SetHandler(t, h)
  PROVE  CarefulInv'
<1>1. Keeps({}) /\ sigs' = sigs /\ hand' = hand /\ end' = end /\ thr' = thr
  BY SameKeeps DEF SetHandler
<1>2. /\ h \in Objs /\ map[h] # 0 /\ thr[t].pc = "idle"
      /\ \A u \in Threads \ {t} : thr[u].handle # h
      /\ ~ objs[map[h]].fn
      /\ drv'.open = drv.open
      /\ hw'.status = hw.status /\ hw'.running = hw.running /\ hw'.flashing = hw.flashing
      /\ hw'.msi <=> (hw.msi \/ (hw.status # {} /\ ~ hw.enable))
  BY SetHandlerStep DEF CoreInv
<1>3. map[h] \in OpenFiles
  BY <1>2, SlotIsFree DEF CoreInv, OpenFiles, Live
<1>4. ASSUME OneFile, Safe PROVE Safe'
  <2>1. ~ Served
    BY <1>2, <1>3, <1>4 DEF Served, OneFile, OpenFiles, Live
  <2>2. ~ Busy
    BY <1>4, <2>1 DEF Safe
  <2>3. hw'.msi => hw.msi
    BY <1>2, <2>2 DEF Busy
  <2>4. drv'.open # 0
    BY <1>2, <1>3, NoFileOpen
  <2>5. hw'.flashing => \E u \in Threads : thr'[u].pc = "jtag"
    BY <1>1, <1>2, <1>4 DEF Safe, FlashedInCall
  <2>. QED
    BY <1>1, <1>2, <1>4, <2>2, <2>3, <2>4, <2>5, SafeAtRest
<1>. QED
  BY <1>1, <1>4, CarefulStep DEF Keeps

LEMMA CarefulLaunch ==
  ASSUME CoreInv, AloneInv, CarefulInv, NEW t \in Threads, NEW h \in Mapped, NEW r \in Regions,
         Launch(t, h, r)
  PROVE  CarefulInv'
<1>1. Keeps({}) /\ sigs' = sigs /\ hand' = hand /\ end' = end /\ thr' = thr /\ objs' = objs
  BY SameKeeps DEF Launch
<1>2. /\ h \in Objs /\ map[h] # 0 /\ thr[t].pc = "idle"
      /\ \A u \in Threads \ {t} : thr[u].handle # h
      /\ objs[map[h]].fn
      /\ drv'.open = drv.open
      /\ hw'.enable = hw.enable /\ hw'.msi = hw.msi /\ hw'.status = hw.status
      /\ hw'.running = hw.running \cup {r} /\ hw'.flashing = hw.flashing
  BY LaunchStep DEF CoreInv
<1>3. map[h] \in Objs /\ Live(map[h]) /\ \A u \in Threads : thr[u].obj # map[h]
  BY <1>2, SlotIsFree DEF CoreInv
<1>4. ASSUME Safe PROVE Safe'
  <2>1. RaisedByLevel' /\ MaskedWhenClosed' /\ FlashedInCall'
    BY <1>1, <1>2, <1>4 DEF Safe, RaisedByLevel, MaskedWhenClosed, FlashedInCall
  <2>2. Served'
    BY <1>1, <1>2, <1>3 DEF Served, Live
  <2>3. \A u \in Threads : Reporting(u)' <=> Reporting(u)
    BY <1>1 DEF Reporting
  <2>4. hw'.running # {}
    BY <1>2
  <2>5. OneReport'
    BY <1>1, <1>2, <1>4, <2>3, <2>4 DEF Safe, OneReport
  <2>6. HandIsLive'
    BY <1>1, <1>4 DEF Safe, HandIsLive, Live
  <2>. QED
    BY <2>1, <2>2, <2>5, <2>6 DEF Safe
<1>. QED
  BY <1>1, <1>4, CarefulStep DEF Keeps

LEMMA CarefulCalls ==
  ASSUME CoreInv, AloneInv, CarefulInv, NEW t \in Threads, Calls(t)
  PROVE  CarefulInv'
<1>. USE DEF CoreInv
<1>0. ASSUME Keeps({}), end' = end, thr[t].obj # 0, thr[t].pc # "discard",
             sigs' = sigs, hand' = hand, hw'.msi => hw.msi,
             hw'.running \subseteq hw.running, hw'.status \subseteq hw.status,
             hw'.enable => hw.enable, drv'.open = drv.open,
             NEW pc, hw'.flashing => (hw.flashing /\ thr[t].pc # "jtag") \/ pc = "jtag",
             NEW o, NEW h, Turns(t, pc, o, h)
      PROVE  CarefulInv'
  <2>1. drv.open # 0
    BY <1>0, FileOfCall, NoFileOpen
  <2>. QED
    BY <1>0, <2>1, CarefulInCall DEF Turns, Keeps
<1>1. CASE OpenNumber(t)
  <2>1. thr[t].pc \in {"idle", "reopen"} /\ Turns(t, "numbered", 0, 0)
    BY <1>1, OpenNumberStep
  <2>2. PICK marks : Keeps(marks)
    BY <1>1, SpoilKeeps DEF OpenNumber
  <2>3. \A u \in Threads : /\ thr'[u].obj = thr[u].obj \/ thr'[u].obj = 0
                           /\ thr[u].pc = "jtag" => thr'[u].pc = "jtag"
    BY <2>1 DEF Turns
  <2>. QED
    BY <1>1, <2>2, <2>3, CarefulSame DEF OpenNumber, Keeps
<1>2. CASE OpenConstruct(t)
  BY <1>2, CarefulOpenConstruct
<1>3. CASE OpenSignal(t)
  <2>1. thr[t].pc = "built" /\ thr[t].obj # 0 /\ drv'.open = drv.open /\ Turns(t, "signalled", thr[t].obj, 0)
    BY <1>3, OpenSignalStep, ObjsRange
  <2>2. Keeps({}) /\ end' = end /\ sigs' = sigs /\ hand' = hand /\ hw' = hw
    BY <1>3, SameKeeps DEF OpenSignal
  <2>. QED
    BY <1>0, <2>1, <2>2
<1>4. CASE OpenRecord(t)
  <2>1. thr[t].pc = "signalled" /\ thr[t].obj # 0 /\ Turns(t, "idle", 0, 0)
    BY <1>4, OpenRecordStep, ObjsRange
  <2>2. PICK marks : Keeps(marks)
    BY <1>4, SpoilKeeps DEF OpenRecord
  <2>3. end' = end /\ sigs' = sigs /\ hand' = hand /\ hw' = hw /\ drv' = drv
    BY <1>4 DEF OpenRecord
  <2>4. drv.open # 0
    BY <2>1, FileOfCall, NoFileOpen
  <2>. QED
    BY <2>1, <2>2, <2>3, <2>4, CarefulInCall DEF Turns, Keeps
<1>5. ASSUME NEW h \in Mapped, Close(t, h) PROVE CarefulInv'
  <2>1. thr[t].pc = "idle" /\ hand[t].pc = "none" /\ Turns(t, "delete", map[h], h)
    BY <1>5, CloseStep
  <2>2. Keeps(Overlap(t) \cup Careless(t))
    BY <1>5, SpoilKeeps DEF Close
  <2>3. end' = end /\ sigs' = sigs /\ hand' = hand /\ hw' = hw /\ drv' = drv
    BY <1>5 DEF Close
  <2>. QED
    BY <2>1, <2>2, <2>3, CarefulTakes DEF Turns
<1>6. ASSUME NEW h \in Mapped, SetHandler(t, h) PROVE CarefulInv'
  BY <1>6, CarefulSetHandler
<1>7. ASSUME NEW h \in Mapped, NEW r \in Regions, Launch(t, h, r) PROVE CarefulInv'
  BY <1>7, CarefulLaunch
<1>8. ASSUME NEW h \in Mapped, NEW i \in Images, NEW r \in Regions, Reprogram(t, h, i, r) PROVE CarefulInv'
  <2>1. thr[t].pc = "idle" /\ hand[t].pc = "none" /\ Turns(t, "pr", map[h], h)
    BY <1>8, ReprogramStep
  <2>2. Keeps(Overlap(t) \cup Careless(t) \cup (IF end = "stopping" THEN {"late"} ELSE {}))
    BY <1>8, SpoilKeeps DEF Reprogram
  <2>3. end' = end /\ sigs' = sigs /\ hand' = hand /\ hw' = hw /\ drv' = drv
    BY <1>8 DEF Reprogram
  <2>. QED
    BY <2>1, <2>2, <2>3, CarefulTakes DEF Turns
<1>9. CASE DeleteParts(t)
  <2>1. thr[t].pc = "delete" /\ thr[t].obj # 0 /\ drv'.open = drv.open /\ GoesOn(t, "closing")
    BY <1>9, DeletePartsStep, ObjsRange
  <2>2. Keeps({}) /\ end' = end /\ sigs' = sigs /\ hand' = hand /\ hw' = hw
    BY <1>9, SameKeeps DEF DeleteParts
  <2>. QED
    BY <1>0, <2>1, <2>2 DEF GoesOn
<1>10. CASE DeleteDone(t)
  BY <1>10, CarefulDeleteDone
<1>11. CASE Discard(t)
  <2>1. thr[t].pc = "discard" /\ \E pc \in {"idle", "reopen"} : Turns(t, pc, 0, 0)
    BY <1>11, DiscardStep
  <2>2. Keeps({})
    BY <1>11, SameKeeps DEF Discard
  <2>3. \A u \in Threads : /\ thr'[u].obj = thr[u].obj \/ thr'[u].obj = 0
                           /\ thr[u].pc = "jtag" => thr'[u].pc = "jtag"
    BY <2>1 DEF Turns
  <2>. QED
    BY <1>11, <2>2, <2>3, CarefulSame DEF Discard, Keeps
<1>12. \A u \in Threads : thr[u].pc \in InCall => thr[u].obj # 0
  BY CallTypes DEF TypeInv
<1>13. CASE PrBegin(t)
  <2>1. thr[t].pc = "pr" /\ drv'.open = drv.open /\ GoesOn(t, "reconfiguring")
    BY <1>13, PrBeginStep
  <2>2. Keeps({}) /\ end' = end /\ sigs' = sigs /\ hand' = hand /\ hw' = hw
    BY <1>13, SameKeeps DEF PrBegin
  <2>. QED
    BY <1>0, <1>12, <2>1, <2>2 DEF GoesOn, InCall, Programming
<1>14. CASE PrEnd(t)
  <2>1. /\ thr[t].pc = "reconfiguring" /\ drv'.open = drv.open /\ GoesOn(t, "programmed")
        /\ hw'.enable = hw.enable /\ hw'.msi = hw.msi /\ hw'.flashing = hw.flashing
        /\ hw'.running \subseteq hw.running /\ hw'.status \subseteq hw.status
    BY <1>14, PrEndStep
  <2>2. Keeps({}) /\ end' = end /\ sigs' = sigs /\ hand' = hand
    BY <1>14, SameKeeps DEF PrEnd
  <2>. QED
    BY <1>0, <1>12, <2>1, <2>2 DEF GoesOn, InCall, Programming
<1>15. CASE PrNot(t)
  <2>1. thr[t].pc = "pr" /\ drv'.open = drv.open
    BY <1>15, PrNotStep
  <2>2. PICK pc \in {"save", "programmed"} : GoesOn(t, pc)
    BY <1>15, PrNotStep
  <2>3. Keeps({}) /\ end' = end /\ sigs' = sigs /\ hand' = hand /\ hw' = hw
    BY <1>15, SameKeeps DEF PrNot
  <2>. QED
    BY <1>0, <1>12, <2>1, <2>2, <2>3 DEF GoesOn, InCall, Programming
<1>16. CASE SaveControl(t)
  <2>1. /\ thr[t].pc = "save" /\ drv'.open = drv.open /\ ~ hw'.enable /\ ~ hw'.msi
        /\ hw'.running = hw.running /\ hw'.status = hw.status
    BY <1>16, SaveControlStep
  <2>2. PICK pc \in {"jtag", "delete"} : GoesOn(t, pc) /\ (hw'.flashing => pc = "jtag")
    BY <1>16, SaveControlStep
  <2>3. Keeps({}) /\ end' = end /\ sigs' = sigs /\ hand' = hand
    BY <1>16, SameKeeps DEF SaveControl
  <2>. QED
    BY <1>0, <1>12, <2>1, <2>2, <2>3 DEF GoesOn, InCall, Programming
<1>17. CASE Jtag(t)
  <2>1. /\ thr[t].pc = "jtag" /\ drv' = drv /\ hw'.enable = hw.enable /\ hw'.msi = hw.msi
        /\ ~ hw'.flashing /\ hw'.running \subseteq hw.running /\ hw'.status \subseteq hw.status
        /\ GoesOn(t, "load")
    BY <1>17, JtagStep DEF Jtag
  <2>2. Keeps({}) /\ end' = end /\ sigs' = sigs /\ hand' = hand
    BY <1>17, SameKeeps DEF Jtag
  <2>. QED
    BY <1>0, <1>12, <2>1, <2>2 DEF GoesOn, InCall, Programming
<1>18. CASE LoadControl(t)
  <2>1. /\ thr[t].pc = "load" /\ drv'.open = drv.open /\ ~ hw'.enable /\ hw'.msi = hw.msi
        /\ hw'.flashing = hw.flashing /\ hw'.running = hw.running /\ hw'.status = hw.status
    BY <1>18, LoadControlStep
  <2>2. PICK pc \in {"pr", "programmed"} : GoesOn(t, pc)
    BY <1>18, LoadControlStep
  <2>3. PICK marks : Keeps(marks)
    BY <1>18, SpoilKeeps DEF LoadControl
  <2>4. end' = end /\ sigs' = sigs /\ hand' = hand
    BY <1>18 DEF LoadControl
  <2>5. thr[t].obj # 0
    BY <1>12, <2>1 DEF InCall, Programming
  <2>. QED
    BY <2>1, <2>2, <2>3, <2>4, <2>5, CarefulInCall DEF GoesOn, Turns, Keeps
<1>19. CASE Programmed(t)
  <2>1. thr[t].pc = "programmed" /\ thr[t].obj # 0 /\ \A u \in Threads \ {t} : thr'[u] = thr[u]
    BY <1>19, ProgrammedStep, ObjsRange DEF GoesOn, Turns
  <2>2. PICK marks : Keeps(marks)
    BY <1>19, SpoilKeeps DEF Programmed
  <2>3. end' = end /\ sigs' = sigs /\ hand' = hand /\ hw' = hw /\ drv' = drv
    BY <1>19 DEF Programmed
  <2>4. drv.open # 0
    BY <2>1, FileOfCall, NoFileOpen
  <2>. QED
    BY <2>1, <2>2, <2>3, <2>4, CarefulInCall DEF Keeps
<1>. QED
  BY <1>1, <1>2, <1>3, <1>4, <1>5, <1>6, <1>7, <1>8, <1>9, <1>10, <1>11, <1>13, <1>14,
     <1>15, <1>16, <1>17, <1>18, <1>19 DEF Calls

\* Of the board, the driver and the signal handler.

LEMMA HandTypes ==
  ASSUME TypeInv, NEW t \in Threads
  PROVE  /\ hand[t].pc \in {"none", "found", "called"}
         /\ hand[t].pc # "none" => hand[t].obj \in Objs
BY ObjsRange DEF TypeInv, HandRecords, HandFields

LEMMA CarefulKernelDone ==
  ASSUME CoreInv, AloneInv, CarefulInv, NEW r \in Regions, KernelDone(r)
  PROVE  CarefulInv'
<1>1. /\ Keeps({}) /\ sigs' = sigs /\ hand' = hand /\ end' = end /\ thr' = thr
      /\ objs' = objs /\ drv' = drv
  BY SameKeeps DEF KernelDone
<1>2. /\ r \in hw.running
      /\ hw'.enable = hw.enable /\ hw'.status = hw.status \cup {r}
      /\ hw'.flashing = hw.flashing
      /\ hw'.msi <=> (hw.msi \/ (hw.enable /\ hw.status = {}))
  BY KernelDoneStep DEF CoreInv
<1>3. ASSUME Safe PROVE Safe'
  <2>1. hw'.status # {}
    BY <1>2
  <2>2. RaisedByLevel' /\ MaskedWhenClosed' /\ FlashedInCall'
    BY <1>1, <1>2, <1>3, <2>1 DEF Safe, RaisedByLevel, MaskedWhenClosed, FlashedInCall
  <2>3. Served'
    BY <1>1, <1>2, <1>3 DEF Safe, Busy, Served, Live
  <2>4. \A u \in Threads : Reporting(u)' <=> Reporting(u)
    BY <1>1 DEF Reporting
  <2>5. OneReport'
    BY <1>1, <1>2, <1>3, <2>1, <2>4 DEF Safe, OneReport
  <2>6. HandIsLive'
    BY <1>1, <1>3 DEF Safe, HandIsLive, Live
  <2>. QED
    BY <2>2, <2>3, <2>5, <2>6 DEF Safe
<1>. QED
  BY <1>1, <1>3, CarefulStep DEF Keeps

LEMMA OneSignal ==
  ASSUME NEW S, NEW x \in S
  PROVE  Append(<<>>, x) # <<>> /\ Tail(Append(<<>>, x)) = <<>>
OBVIOUS

LEMMA CarefulIrq ==
  ASSUME CoreInv, AloneInv, CarefulInv, Irq
  PROVE  CarefulInv'
<1>1. hand' = hand /\ end' = end /\ thr' = thr /\ objs' = objs /\ drv' = drv
  BY DEF Irq
<1>2. Careful' => Careful
  BY SameKeeps, SpoilKeeps DEF Irq, Keeps
<1>3. /\ hw.msi /\ drv.requested /\ ~ hw'.msi
      /\ hw'.status = hw.status /\ hw'.running = hw.running /\ hw'.flashing = hw.flashing
      /\ drv.pr => hw'.enable = hw.enable /\ sigs' = sigs
      /\ ~ drv.pr /\ hw.status = {} => hw'.enable = hw.enable /\ sigs' = sigs
      /\ ~ drv.pr /\ hw.status # {} =>
           /\ ~ hw'.enable
           /\ sigs' = [sigs EXCEPT ![drv.task] = Append(sigs[drv.task], drv.payload)]
  BY IrqStep DEF CoreInv, TaskKnown
<1>4. ASSUME Safe PROVE Safe'
  <2>1. hw.enable /\ hw.status # {}
    BY <1>3, <1>4 DEF Safe, RaisedByLevel
  <2>2. \A u \in Threads : sigs[u] = <<>> /\ hand[u].pc = "none"
    BY <1>4, <2>1 DEF Safe, OneReport, Reporting
  <2>3. Served' /\ HandIsLive'
    BY <1>1, <1>4, <2>1, <2>2 DEF Safe, Busy, Served, HandIsLive, Live
  <2>4. hw'.enable => hw.enable
    BY <1>3, <2>1
  <2>5. RaisedByLevel' /\ MaskedWhenClosed' /\ FlashedInCall'
    BY <1>1, <1>3, <1>4, <2>4 DEF Safe, RaisedByLevel, MaskedWhenClosed, FlashedInCall
  <2>6. OneReport'
    <3>1. CASE drv.pr
      BY <1>1, <1>3, <2>2, <3>1 DEF OneReport, Reporting
    <3>2. CASE ~ drv.pr
      <4>1. drv.task \in Threads /\ drv.payload \in 0 .. MaxOpens
        BY <1>3 DEF CoreInv, TaskKnown, TypeInv, DrvRecords
      <4>2. sigs' = [sigs EXCEPT ![drv.task] = Append(<<>>, drv.payload)] /\ ~ hw'.enable
        BY <1>3, <2>1, <2>2, <3>2, <4>1
      <4>3. Tail(sigs'[drv.task]) = <<>> /\ \A u \in Threads \ {drv.task} : sigs'[u] = <<>>
        BY <2>2, <4>1, <4>2, OneSignal DEF CoreInv, TypeInv
      <4>. QED
        BY <1>1, <1>3, <2>1, <2>2, <4>2, <4>3 DEF OneReport, Reporting
    <3>. QED
      BY <3>1, <3>2
  <2>. QED
    BY <2>3, <2>5, <2>6 DEF Safe
<1>. QED
  BY <1>1, <1>2, <1>4, CarefulStep

LEMMA CarefulSignalTaken ==
  ASSUME CoreInv, AloneInv, CarefulInv, NEW t \in Threads, SignalTaken(t)
  PROVE  CarefulInv'
<1>1. Keeps({}) /\ end' = end /\ thr' = thr /\ objs' = objs /\ drv' = drv /\ hw' = hw
  BY SameKeeps DEF SignalTaken
<1>2. /\ hand[t].pc = "none" /\ sigs[t] # <<>> /\ sigs' = [sigs EXCEPT ![t] = Tail(sigs[t])]
      /\ Head(sigs[t]) \notin Mapped => hand' = hand
      /\ Head(sigs[t]) \in Mapped =>
           /\ hand'[t].pc = "found" /\ hand'[t].obj = map[Head(sigs[t])]
           /\ \A u \in Threads \ {t} : hand'[u] = hand[u]
  BY SignalTakenStep DEF CoreInv
<1>3. sigs'[t] = Tail(sigs[t]) /\ \A u \in Threads \ {t} : sigs'[u] = sigs[u]
  BY <1>2 DEF CoreInv, TypeInv
<1>4. ASSUME OneFile, NoneLeft, Safe PROVE Safe'
  <2>1. /\ ~ hw.enable /\ ~ hw.msi /\ hw.status # {} /\ Tail(sigs[t]) = <<>>
        /\ \A u \in Threads \ {t} : ~ Reporting(u)
    BY <1>2, <1>4 DEF Safe, OneReport, Reporting
  <2>2. PICK o \in Objs : Live(o) /\ objs[o].fn /\ \A u \in Threads : thr[u].obj # o
    BY <1>4, <2>1 DEF Safe, Busy, Served
  <2>3. RaisedByLevel' /\ MaskedWhenClosed' /\ FlashedInCall' /\ Served'
    BY <1>1, <1>4, <2>2 DEF Safe, RaisedByLevel, MaskedWhenClosed, FlashedInCall, Served, Live
  <2>4. \A u \in Threads \ {t} : ~ Reporting(u)' /\ hand[u].pc = "none" /\ hand'[u].pc = "none"
    BY <1>2, <1>3, <2>1 DEF Reporting
  <2>5. sigs'[t] = <<>> /\ hand'[t].pc \in {"none", "found"}
    BY <1>2, <1>3, <2>1
  <2>6. OneReport'
    BY <1>1, <2>1, <2>4, <2>5 DEF OneReport
  <2>7. HandIsLive'
    <3>. SUFFICES ASSUME hand'[t].pc # "none" PROVE Live(hand'[t].obj)
      BY <1>1, <2>4 DEF HandIsLive, Live
    <3>1. PICK h \in Mapped : hand'[t].obj = map[h]
      BY <1>2
    <3>2. h \in Objs /\ map[h] # 0
      BY DEF Mapped, CoreInv, TypeInv
    <3>3. ASSUME ~ Live(map[h]) PROVE FALSE
      <4>1. PICK u \in Threads : thr[u].obj = map[h] /\ thr[u].pc \in {"closing", "discard"}
        BY <3>2, <3>3 DEF Live, CoreInv, Owned, GoingIsInCall
      <4>2. CASE thr[u].pc = "closing"
        BY <1>4, <2>1, <3>2, <4>1, <4>2, QuietInCall DEF Busy
      <4>3. CASE thr[u].pc = "discard"
        BY <1>4, <2>2, <4>3 DEF NoneLeft, OpenFiles, Live
      <4>. QED
        BY <4>1, <4>2, <4>3
    <3>. QED
      BY <3>1, <3>3
  <2>. QED
    BY <2>3, <2>6, <2>7 DEF Safe
<1>. QED
  BY <1>1, <1>4, CarefulStep DEF Keeps

\* The handler's device is there, and the board's design is not being written.
LEMMA HandReaches ==
  ASSUME CoreInv, OneFile, NoneLeft, Safe, NEW t \in Threads, hand[t].pc # "none"
  PROVE  Reachable(t) /\ drv.open # 0 /\ Served
<1>1. Live(hand[t].obj) /\ hand[t].obj \in Objs
  BY HandTypes DEF Safe, HandIsLive, CoreInv
<1>2. Busy
  BY DEF Busy, Reporting
<1>3. drv.open # 0
  BY <1>1, NoFileOpen DEF OpenFiles, Live
<1>4. ASSUME hw.flashing PROVE FALSE
  <2>1. PICK u \in Threads : thr[u].pc = "jtag"
    BY <1>4 DEF Safe, FlashedInCall
  <2>2. thr[u].obj # 0
    BY <2>1, CallTypes DEF CoreInv, TypeInv, InCall, Programming
  <2>. QED
    BY <1>2, <2>1, <2>2, QuietInCall
<1>. QED
  BY <1>1, <1>2, <1>3, <1>4 DEF Reachable, Safe

LEMMA CarefulCrash ==
  ASSUME CoreInv, AloneInv, CarefulInv, ghost' = ghost, NEW t \in Threads, hand[t].pc # "none",
         ~ Reachable(t)
  PROVE  CarefulInv'
<1>1. ~ Careful
  <2>1. Careful => OneFile /\ NoneLeft /\ Safe
    BY DEF Careful, Alone, AloneInv, CarefulInv
  <2>. QED
    BY <2>1, HandReaches
<1>. QED
  BY <1>1 DEF CarefulInv, Careful

LEMMA CarefulCallback ==
  ASSUME CoreInv, AloneInv, CarefulInv, NEW t \in Threads, Callback(t)
  PROVE  CarefulInv'
<1>1. Keeps({}) /\ ghost' = ghost /\ thr' = thr /\ objs' = objs /\ sigs' = sigs
  BY SameKeeps DEF Callback
<1>2. hand[t].pc = "found"
  BY CallbackStep DEF CoreInv
<1>3. CASE ~ Reachable(t)
  BY <1>1, <1>2, <1>3, CarefulCrash
<1>4. CASE Reachable(t)
  <2>1. /\ end' = end
        /\ hand'[t].pc = "called" /\ hand'[t].obj = hand[t].obj
        /\ \A u \in Threads \ {t} : hand'[u] = hand[u]
        /\ hw'.enable = hw.enable /\ hw'.msi = hw.msi /\ hw'.running = hw.running
        /\ hw'.flashing = hw.flashing /\ drv'.open = drv.open
        /\ objs[hand[t].obj].fn => hw'.status = {} /\ drv'.task = t
        /\ ~ objs[hand[t].obj].fn => hw'.status = hw.status /\ drv'.task = drv.task
    BY <1>4, CallbackStep DEF CoreInv
  <2>2. ASSUME OneFile, NoneLeft, Safe PROVE Safe'
    <3>1. /\ ~ hw.enable /\ ~ hw.msi /\ hw.status # {} /\ sigs[t] = <<>>
          /\ \A u \in Threads \ {t} : ~ Reporting(u)
      BY <1>2, <2>2 DEF Safe, OneReport, Reporting
    <3>2. Served'
      BY <1>1, <1>2, <2>2, HandReaches DEF Served, Live
    <3>3. RaisedByLevel' /\ MaskedWhenClosed' /\ FlashedInCall'
      BY <1>1, <2>1, <2>2, <3>1 DEF Safe, RaisedByLevel, MaskedWhenClosed, FlashedInCall
    <3>4. \A u \in Threads \ {t} : ~ Reporting(u)'
      BY <1>1, <2>1, <3>1 DEF Reporting
    <3>5. OneReport'
      BY <1>1, <2>1, <3>1, <3>4 DEF OneReport
    <3>6. HandIsLive'
      BY <1>1, <1>2, <2>1, <2>2 DEF Safe, HandIsLive, Live
    <3>. QED
      BY <3>2, <3>3, <3>5, <3>6 DEF Safe
  <2>. QED
    BY <1>1, <2>1, <2>2, CarefulStep DEF Keeps
<1>. QED
  BY <1>3, <1>4

LEMMA CarefulUnmask ==
  ASSUME CoreInv, AloneInv, CarefulInv, NEW t \in Threads, UnmaskKernel(t)
  PROVE  CarefulInv'
<1>1. Keeps({}) /\ ghost' = ghost /\ thr' = thr /\ objs' = objs /\ sigs' = sigs
  BY SameKeeps DEF UnmaskKernel
<1>2. hand[t].pc = "called"
  BY UnmaskKernelStep DEF CoreInv
<1>3. CASE ~ Reachable(t)
  BY <1>1, <1>2, <1>3, CarefulCrash
<1>4. CASE Reachable(t)
  <2>1. /\ end' = end
        /\ hand'[t].pc = "none" /\ \A u \in Threads \ {t} : hand'[u] = hand[u]
        /\ hw'.enable /\ hw'.status = hw.status /\ hw'.running = hw.running
        /\ hw'.flashing = hw.flashing
        /\ hw'.msi <=> (hw.msi \/ (hw.status # {} /\ ~ hw.enable))
        /\ drv'.open = drv.open
    BY <1>4, UnmaskKernelStep DEF CoreInv
  <2>2. ASSUME OneFile, NoneLeft, Safe PROVE Safe'
    <3>1. /\ ~ hw.enable /\ ~ hw.msi /\ sigs[t] = <<>>
          /\ \A u \in Threads \ {t} : ~ Reporting(u)
      BY <1>2, <2>2 DEF Safe, OneReport, Reporting
    <3>2. Served' /\ drv'.open # 0
      BY <1>1, <1>2, <2>1, <2>2, HandReaches DEF Served, Live
    <3>3. RaisedByLevel' /\ MaskedWhenClosed' /\ FlashedInCall'
      BY <1>1, <2>1, <2>2, <3>1, <3>2 DEF Safe, RaisedByLevel, MaskedWhenClosed, FlashedInCall
    <3>4. \A u \in Threads : ~ Reporting(u)' /\ hand'[u].pc = "none"
      BY <1>1, <2>1, <3>1 DEF Reporting
    <3>. QED
      BY <3>2, <3>3, <3>4 DEF Safe, OneReport, HandIsLive
  <2>. QED
    BY <1>1, <2>1, <2>2, CarefulStep DEF Keeps
<1>. QED
  BY <1>3, <1>4

LEMMA CarefulFreeAll ==
  ASSUME CoreInv, AloneInv, CarefulInv, FreeAll
  PROVE  CarefulInv'
<1>1. Keeps({}) /\ thr' = thr /\ objs' = objs /\ sigs' = sigs /\ hand' = hand
  BY SameKeeps DEF FreeAll
<1>2. /\ end' \in {"torn", "exited"} /\ drv'.open = drv.open /\ drv'.task = drv.task
      /\ ~ hw'.enable /\ ~ hw'.msi /\ hw'.status = hw.status /\ hw'.running = hw.running
      /\ hw'.flashing = hw.flashing
  BY FreeAllStep DEF CoreInv
<1>3. ASSUME Safe PROVE Safe'
  <2>1. RaisedByLevel' /\ MaskedWhenClosed' /\ FlashedInCall'
    BY <1>1, <1>2, <1>3 DEF Safe, RaisedByLevel, MaskedWhenClosed, FlashedInCall
  <2>2. \A u \in Threads : Reporting(u)' <=> Reporting(u)
    BY <1>1 DEF Reporting
  <2>3. Busy' => Served'
    BY <1>1, <1>2, <1>3, <2>2 DEF Safe, Busy, Served, Live
  <2>4. OneReport'
    BY <1>1, <1>2, <1>3, <2>2 DEF Safe, OneReport
  <2>5. HandIsLive'
    BY <1>1, <1>3 DEF Safe, HandIsLive, Live
  <2>. QED
    BY <2>1, <2>3, <2>4, <2>5 DEF Safe
<1>. QED
  BY <1>1, <1>2, <1>3, CarefulStep DEF Keeps

LEMMA CarefulNext ==
  ASSUME CoreInv, AloneInv, CarefulInv, [Next]_vars
  PROVE  CarefulInv'
<1>1. CASE \E t \in Threads : Calls(t)
  BY <1>1, CarefulCalls
<1>2. CASE CtrlC \/ UNCHANGED vars
  <2>1. /\ hw' = hw /\ sigs' = sigs /\ hand' = hand /\ objs' = objs /\ drv' = drv /\ thr' = thr
        /\ Keeps({}) /\ (end' = "crashed" => end = "crashed")
    BY <1>2, SameKeeps DEF CtrlC, vars
  <2>. QED
    BY <2>1, CarefulSame DEF Keeps
<1>. QED
  BY <1>1, <1>2, NextSplit, CarefulKernelDone, CarefulIrq, CarefulSignalTaken, CarefulCallback,
     CarefulUnmask, CarefulFreeAll DEF Others

\* A host that closes or reprograms a device only when no kernel runs and no
\* completion waits, in the thread that used it last, never has its signal
\* handler use a device object that is being deleted, nor the board while its
\* full design is written (pcie_linux_signal_handler, service_interrupt).
THEOREM MmdCarefulHostIsSafe == Spec => []CarefulHostIsSafe
<1>1. Init => CarefulInv
  <2>. SUFFICES ASSUME Init PROVE CarefulInv
    OBVIOUS
  <2>1. end = "running" /\ ~ hw.enable /\ ~ hw.msi /\ hw.status = {} /\ hw.running = {} /\ ~ hw.flashing
    BY DEF Init
  <2>2. \A t \in Threads : sigs[t] = <<>> /\ hand[t].pc = "none"
    BY DEF Init, Asleep
  <2>. QED
    BY <2>1, <2>2 DEF CarefulInv, Safe, RaisedByLevel, MaskedWhenClosed, Busy, OneReport, Reporting,
       HandIsLive, FlashedInCall
<1>2. CoreInv /\ AloneInv /\ CarefulInv /\ [Next]_vars => CarefulInv'
  BY CarefulNext
<1>3. CarefulInv => CarefulHostIsSafe
  BY DEF CarefulInv, CarefulHostIsSafe, Careful
<1>. QED
  BY <1>1, <1>2, <1>3, AloneInvariant, PTL DEF Spec

-----------------------------------------------------------------------------
(* The board is not ignored.                                               *)

\* A full programming and a close cut the interrupt off; a watched device is
\* not in one.
Cut(u) == thr[u].pc \in {"jtag", "load", "delete"}
Spared(u) == thr[u].pc \in {"pr", "reconfiguring", "save", "programmed"} /\ ~ thr[u].second

LEMMA AttentiveAlone ==
  /\ Attentive => Alone
  /\ Attentive' => Alone'
BY DEF Attentive, Alone

LEMMA LevelSame ==
  ASSUME LevelIsSent, hw'.enable => hw.enable, hw'.status # {} => hw.status # {}, hw.msi => hw'.msi
  PROVE  LevelIsSent'
BY DEF LevelIsSent

\* A step that leaves the map, the reports and the interrupt alone, and no
\* object less cut off than it was.
LEMMA WatchSame ==
  ASSUME CoreInv, WatchInv, Alone' => Alone, Attentive' => Attentive, Runs' => Runs, map' = map,
         drv'.payload = drv.payload, drv.requested => drv'.requested,
         hw'.enable = hw.enable, hw'.status # {} => hw.status # {}, hw.msi => hw'.msi,
         sigs' = sigs, \A u \in Threads : hand'[u].obj = hand[u].obj,
         \A o \in Objs : /\ objs'[o].state = "live" => objs[o].state = "live"
                         /\ objs'[o].fn = objs[o].fn /\ objs'[o].init = objs[o].init
                         /\ objs'[o].handle = objs[o].handle,
         \A u \in Threads : thr[u].pc = "built" => thr'[u] = thr[u],
         \A u \in Threads : thr[u].obj # 0 /\ objs'[thr[u].obj].state = "live" =>
           /\ Cut(u) => thr'[u].obj = thr[u].obj /\ Cut(u)'
           /\ ~ Spared(u) => thr'[u].obj = thr[u].obj /\ ~ Spared(u)'
  PROVE  WatchInv'
<1>. USE DEF WatchInv
<1>1. \A h \in Objs : map[h] # 0 => map[h] \in Objs
  BY ObjsRange DEF CoreInv, TypeInv
<1>2. HandlerWasSound'
  BY DEF HandlerWasSound
<1>3. PayloadIsHandle => PayloadIsHandle'
  BY DEF PayloadIsHandle, Live
<1>4. SetUp => SetUp'
  <2>. SUFFICES ASSUME SetUp, NEW o \in Objs, objs'[o].state = "live",
                       \A u \in Threads : thr'[u].obj = o => ~ Cut(u)'
                PROVE  drv'.requested
    BY DEF SetUp, Live, Cut
  <2>1. \A u \in Threads : thr[u].obj = o => ~ Cut(u)
    BY ObjsRange
  <2>. QED
    BY <2>1 DEF SetUp, Live, Cut
<1>5. LevelIsSent => LevelIsSent'
  BY LevelSame
<1>6. WatchedIsHeard => WatchedIsHeard'
  <2>. SUFFICES ASSUME WatchedIsHeard, NEW h \in Objs, Watched(h)' PROVE (hw.enable \/ Told(h))'
    BY DEF WatchedIsHeard
  <2>1. /\ map[h] # 0 /\ map[h] \in Objs /\ objs[map[h]].fn /\ objs'[map[h]].state = "live"
        /\ \A u \in Threads : thr'[u].obj = map[h] => Spared(u)'
    BY <1>1 DEF Watched, Live, Spared
  <2>2. \A u \in Threads : thr[u].obj = map[h] => Spared(u)
    BY <2>1
  <2>3. Watched(h)
    BY <2>1, <2>2 DEF Watched, Live, Spared
  <2>4. hw.enable \/ Told(h)
    BY <2>3 DEF WatchedIsHeard
  <2>. QED
    BY <2>4 DEF Told
<1>. QED
  BY <1>2, <1>3, <1>4, <1>5, <1>6, AttentiveAlone

LEMMA WatchOpenConstruct ==
  ASSUME CoreInv, AloneInv, WatchInv, NEW t \in Threads, OpenConstruct(t)
  PROVE  WatchInv'
<1>. DEFINE marks == Overlap(t) \cup (IF drv.open > 0 THEN {"shared"} ELSE {})
<1>1. Keeps(marks)
  BY SpoilKeeps DEF OpenConstruct
<1>2. PICK o \in Objs, sound \in BOOLEAN :
        /\ objs' = [objs EXCEPT ![o] = objs'[o]]
        /\ objs'[o].init = sound /\ ~ objs'[o].fn
        /\ Turns(t, IF sound THEN "built" ELSE "signalled", o, 0)
  BY OpenConstructStep DEF CoreInv
<1>3. \A p \in Objs : p # o => objs'[p] = objs[p]
  BY <1>2 DEF CoreInv, TypeInv
<1>4. HandlerWasSound'
  BY <1>2, <1>3 DEF WatchInv, HandlerWasSound
<1>5. ASSUME Alone' PROVE (PayloadIsHandle /\ SetUp /\ LevelIsSent /\ WatchedIsHeard)'
  <2>1. drv.open = 0 /\ OpenFiles = {}
    <3>1. ~ (drv.open > 0)
      BY <1>1, <1>5 DEF Keeps
    <3>. QED
      BY <3>1, NoFileOpen
  <2>2. \A p \in Objs : objs'[p].state = "live" => p = o
    BY <1>3, <2>1 DEF OpenFiles
  <2>3. drv'.requested
    BY <2>1, DriverOpenFacts DEF OpenConstruct, CoreInv, TypeInv
  <2>4. ~ hw'.enable
    <3>1. PICK d \in DrvRecords : hw' = UnmaskIrq(hw, d)
      BY <2>1, DriverOpenFacts DEF OpenConstruct, BoardOpen, CoreInv, TypeInv
    <3>. QED
      BY <3>1, UnmaskFacts DEF CoreInv, TypeInv
  <2>5. PayloadIsHandle'
    <3>1. sound => thr'[t].pc = "built" /\ thr'[t].obj = o
      BY <1>2 DEF Turns
    <3>. QED
      BY <1>2, <2>2, <3>1 DEF PayloadIsHandle, Live
  <2>6. \A h \in Objs : ~ Watched(h)'
    <3>1. \A h \in Objs : map'[h] # 0 => map'[h] \in Objs
      BY OpenConstructStep, ObjsRange DEF CoreInv, TypeInv
    <3>. QED
      BY <1>2, <2>2, <3>1 DEF Watched, Live
  <2>. QED
    BY <2>3, <2>4, <2>5, <2>6 DEF SetUp, LevelIsSent, WatchedIsHeard
<1>. QED
  BY <1>4, <1>5, AttentiveAlone DEF WatchInv

LEMMA WatchOpenSignal ==
  ASSUME CoreInv, AloneInv, WatchInv, NEW t \in Threads, OpenSignal(t)
  PROVE  WatchInv'
<1>1. Keeps({}) /\ (Attentive' => Attentive) /\ objs' = objs /\ hw' = hw /\ end' = end /\ map' = map
  BY SameKeeps DEF OpenSignal
<1>2. /\ thr[t].pc = "built" /\ thr[t].obj \in Objs /\ Turns(t, "signalled", thr[t].obj, 0)
      /\ drv'.requested = drv.requested /\ drv'.payload = objs[thr[t].obj].handle
  BY OpenSignalStep DEF CoreInv
<1>3. HandlerWasSound'
  BY <1>1 DEF WatchInv, HandlerWasSound
<1>4. ~ objs[thr[t].obj].fn
  BY <1>2 DEF CoreInv, Owned, NewHasNoHandler
<1>5. ASSUME Alone' PROVE PayloadIsHandle' /\ (SetUp => SetUp') /\ \A h \in Objs : ~ Watched(h)'
  <2>1. OpenFiles = {thr[t].obj}
    BY <1>1, <1>2, <1>5, ObjsRange, CallIsAlone DEF Keeps, AloneInv
  <2>2. \A p \in Objs : objs'[p].state = "live" => p = thr[t].obj
    BY <1>1, <2>1 DEF OpenFiles
  <2>3. PayloadIsHandle'
    BY <1>1, <1>2, <2>2 DEF PayloadIsHandle, Live
  <2>4. SetUp => SetUp'
    BY <1>1, <1>2 DEF SetUp, Live, Turns
  <2>5. \A h \in Objs : ~ Watched(h)'
    <3>1. \A h \in Objs : map[h] # 0 => map[h] \in Objs
      BY ObjsRange DEF CoreInv, TypeInv
    <3>. QED
      BY <1>1, <1>4, <2>2, <3>1 DEF Watched, Live
  <2>. QED
    BY <2>3, <2>4, <2>5
<1>6. (Alone' => Alone) /\ (Runs' => Runs) /\ (LevelIsSent => LevelIsSent')
  BY <1>1 DEF Keeps, Runs, LevelIsSent
<1>7. Attentive' /\ Runs' => (LevelIsSent /\ WatchedIsHeard)'
  BY <1>1, <1>5, <1>6, AttentiveAlone DEF WatchInv, WatchedIsHeard
<1>. QED
  BY <1>3, <1>5, <1>6, <1>7 DEF WatchInv

LEMMA WatchOpenRecord ==
  ASSUME CoreInv, AloneInv, WatchInv, NEW t \in Threads, OpenRecord(t)
  PROVE  WatchInv'
<1>1. (Alone' => Alone) /\ (Attentive' => Attentive)
  BY SpoilKeeps DEF OpenRecord, Keeps
<1>2. objs' = objs /\ hw' = hw /\ drv' = drv /\ end' = end /\ sigs' = sigs
  BY DEF OpenRecord
<1>3. thr[t].pc = "signalled" /\ thr[t].obj \in Objs /\ Turns(t, "idle", 0, 0) /\ TypeInv'
  BY OpenRecordStep DEF CoreInv
<1>4. HandlerWasSound'
  BY <1>2 DEF WatchInv, HandlerWasSound
<1>5. PayloadIsHandle => PayloadIsHandle'
  BY <1>2, <1>3 DEF PayloadIsHandle, Live, Turns
<1>6. SetUp => SetUp'
  BY <1>2, <1>3 DEF SetUp, Live, Turns
<1>7. ASSUME Alone' PROVE \A h \in Objs : ~ Watched(h)'
  <2>1. OpenFiles = {thr[t].obj} /\ ~ objs[thr[t].obj].fn
    BY <1>1, <1>3, <1>7, ObjsRange, CallIsAlone DEF AloneInv, CoreInv, Owned, NewHasNoHandler
  <2>2. \A h \in Objs : map'[h] # 0 => map'[h] \in Objs
    BY <1>3, ObjsRange DEF TypeInv
  <2>. QED
    BY <1>2, <2>1, <2>2 DEF Watched, Live, OpenFiles
<1>8. (Runs' => Runs) /\ (LevelIsSent => LevelIsSent')
  BY <1>2 DEF Runs, LevelIsSent
<1>9. Attentive' /\ Runs' => (LevelIsSent /\ WatchedIsHeard)'
  BY <1>1, <1>7, <1>8, AttentiveAlone DEF WatchInv, WatchedIsHeard
<1>. QED
  BY <1>1, <1>4, <1>5, <1>6, <1>8, <1>9 DEF WatchInv

\* After the last file is closed, and while a slot is taken out of the map,
\* there is nothing to watch.
LEMMA NothingToWatch ==
  ASSUME TypeInv, OpenFiles = {}
  PROVE  PayloadIsHandle /\ SetUp /\ \A h \in Objs : ~ Watched(h)
<1>1. \A o \in Objs : ~ Live(o)
  BY DEF OpenFiles, Live
<1>2. \A h \in Objs : map[h] # 0 => map[h] \in Objs
  BY ObjsRange DEF TypeInv
<1>. QED
  BY <1>1, <1>2 DEF PayloadIsHandle, SetUp, Watched

LEMMA NothingToWatchNext ==
  ASSUME TypeInv', OpenFiles' = {}
  PROVE  PayloadIsHandle' /\ SetUp' /\ \A h \in Objs : ~ Watched(h)'
<1>1. \A o \in Objs : ~ Live(o)'
  BY DEF OpenFiles, Live
<1>2. \A h \in Objs : map'[h] # 0 => map'[h] \in Objs
  BY ObjsRange DEF TypeInv
<1>. QED
  BY <1>1, <1>2 DEF PayloadIsHandle, SetUp, Watched

LEMMA WatchDeleteDone ==
  ASSUME CoreInv, AloneInv, WatchInv, NEW t \in Threads, DeleteDone(t)
  PROVE  WatchInv'
<1>1. /\ TypeInv' /\ thr[t].obj \in Objs
      /\ objs' = [objs EXCEPT ![thr[t].obj] = objs'[thr[t].obj]]
      /\ ~ objs'[thr[t].obj].fn
  BY DeleteDoneStep DEF CoreInv
<1>2. HandlerWasSound'
  <2>1. \A p \in Objs : p # thr[t].obj => objs'[p] = objs[p]
    BY <1>1 DEF CoreInv, TypeInv
  <2>. QED
    BY <1>1, <2>1 DEF WatchInv, HandlerWasSound
<1>3. ASSUME Alone' PROVE (PayloadIsHandle /\ SetUp /\ LevelIsSent /\ WatchedIsHeard)'
  <2>1. OpenFiles' = {} /\ drv.open = 1
    BY <1>3, AloneDeleteDone
  <2>2. ~ hw'.enable
    BY <2>1, MaskFacts DEF DeleteDone, BoardClose, CoreInv, TypeInv
  <2>. QED
    BY <1>1, <2>1, <2>2, NothingToWatchNext DEF LevelIsSent, WatchedIsHeard
<1>. QED
  BY <1>2, <1>3, AttentiveAlone DEF WatchInv

LEMMA WatchDiscard ==
  ASSUME CoreInv, AloneInv, WatchInv, NEW t \in Threads, Discard(t)
  PROVE  WatchInv'
<1>1. Keeps({}) /\ (Attentive' => Attentive) /\ objs' = objs /\ hw' = hw /\ end' = end
  BY SameKeeps DEF Discard
<1>2. thr[t].pc = "discard" /\ TypeInv'
  BY DiscardStep DEF CoreInv
<1>3. HandlerWasSound'
  BY <1>1 DEF WatchInv, HandlerWasSound
<1>4. ASSUME Alone' PROVE PayloadIsHandle' /\ SetUp' /\ \A h \in Objs : ~ Watched(h)'
  <2>1. OpenFiles' = {}
    BY <1>1, <1>2, <1>4 DEF Keeps, AloneInv, NoneLeft, OpenFiles
  <2>. QED
    BY <1>2, <2>1, NothingToWatchNext
<1>5. (Runs' => Runs) /\ (LevelIsSent => LevelIsSent')
  BY <1>1 DEF Runs, LevelIsSent
<1>6. Attentive' /\ Runs' => (LevelIsSent /\ WatchedIsHeard)'
  BY <1>1, <1>4, <1>5, AttentiveAlone DEF WatchInv, WatchedIsHeard
<1>. QED
  BY <1>3, <1>4, <1>6 DEF WatchInv

\* The two steps of a full programming that release and request the interrupt.
LEMMA WatchControl ==
  ASSUME CoreInv, AloneInv, WatchInv, NEW t \in Threads, SaveControl(t) \/ LoadControl(t)
  PROVE  WatchInv'
<1>1. PICK marks : Keeps(marks)
  BY SameKeeps, SpoilKeeps DEF SaveControl, LoadControl
<1>2. objs' = objs /\ map' = map
  BY DEF SaveControl, LoadControl
<1>3. /\ thr[t].pc \in {"save", "load"} /\ thr[t].obj \in Objs
      /\ ~ hw'.enable /\ drv'.payload = drv.payload
      /\ \E pc : GoesOn(t, pc) /\ (thr[t].pc = "save" => pc \in {"jtag", "delete"})
  BY SaveControlStep, LoadControlStep DEF CoreInv
<1>4. thr[t].pc = "load" => drv'.requested /\ thr'[t].second
  <2>. SUFFICES ASSUME thr[t].pc = "load" PROVE drv'.requested /\ thr'[t].second
    OBVIOUS
  <2>1. LoadControl(t)
    BY SaveControlStep DEF CoreInv
  <2>2. Used(drv, t) \in DrvRecords /\ drv' = InitIrq(Used(drv, t))
    BY <2>1, UsedFacts DEF LoadControl, CoreInv, TypeInv
  <2>. QED
    BY <2>1, <2>2, InitIrqFacts, LoadControlStep DEF CoreInv
<1>5. thr'[t].obj = thr[t].obj /\ \A u \in Threads \ {t} : thr'[u] = thr[u]
  BY <1>3 DEF GoesOn, Turns
<1>6. HandlerWasSound'
  BY <1>2 DEF WatchInv, HandlerWasSound
<1>7. PayloadIsHandle => PayloadIsHandle'
  BY <1>2, <1>3, <1>5 DEF PayloadIsHandle, Live
<1>8. ASSUME Alone' PROVE SetUp' /\ \A h \in Objs : ~ Watched(h)'
  <2>1. OpenFiles = {thr[t].obj}
    BY <1>1, <1>3, <1>8, ObjsRange, CallIsAlone DEF Keeps, AloneInv
  <2>2. \A p \in Objs : objs'[p].state = "live" => p = thr[t].obj
    BY <1>2, <2>1 DEF OpenFiles
  <2>3. thr[t].pc = "save" => thr'[t].pc \in {"jtag", "delete"}
    BY <1>3 DEF GoesOn, Turns
  <2>4. SetUp'
    BY <1>3, <1>4, <1>5, <2>2, <2>3 DEF SetUp, Live
  <2>5. \A h \in Objs : ~ Watched(h)'
    <3>1. \A h \in Objs : map[h] # 0 => map[h] \in Objs
      BY ObjsRange DEF CoreInv, TypeInv
    <3>. QED
      BY <1>2, <1>3, <1>4, <1>5, <2>2, <2>3, <3>1 DEF Watched, Live
  <2>. QED
    BY <2>4, <2>5
<1>9. Alone' => Alone
  BY <1>1 DEF Keeps
<1>10. (LevelIsSent)' /\ (Alone' => WatchedIsHeard')
  BY <1>3, <1>8 DEF LevelIsSent, WatchedIsHeard
<1>. QED
  BY <1>6, <1>7, <1>8, <1>9, <1>10, AttentiveAlone DEF WatchInv

LEMMA WatchSetHandler ==
  ASSUME CoreInv, WatchInv, NEW t \in Threads, NEW h \in Mapped, SetHandler(t, h)
  PROVE  WatchInv'
<1>1. Keeps({}) /\ (Attentive' => Attentive) /\ thr' = thr /\ end' = end /\ map' = map
  BY SameKeeps DEF SetHandler
<1>2. /\ map[h] \in Objs /\ objs[map[h]].init
      /\ objs' = [objs EXCEPT ![map[h]] = objs'[map[h]]]
      /\ objs'[map[h]].state = objs[map[h]].state /\ objs'[map[h]].handle = objs[map[h]].handle
      /\ objs'[map[h]].init = objs[map[h]].init
      /\ drv'.requested = drv.requested /\ drv'.payload = drv.payload
      /\ hw'.enable /\ hw'.status = hw.status
      /\ hw'.msi <=> (hw.msi \/ (hw.status # {} /\ ~ hw.enable))
  BY SetHandlerStep DEF CoreInv
<1>3. PICK o \in Objs : o = map[h]
  BY <1>2
<1>4. \A p \in Objs : p # o => objs'[p] = objs[p]
  BY <1>2, <1>3 DEF CoreInv, TypeInv
<1>5. HandlerWasSound'
  BY <1>2, <1>3, <1>4 DEF WatchInv, HandlerWasSound
<1>6. PayloadIsHandle => PayloadIsHandle'
  BY <1>1, <1>2, <1>3, <1>4 DEF PayloadIsHandle, Live
<1>7. SetUp => SetUp'
  BY <1>1, <1>2, <1>3, <1>4 DEF SetUp, Live
<1>8. (LevelIsSent => LevelIsSent') /\ WatchedIsHeard'
  BY <1>2 DEF LevelIsSent, WatchedIsHeard
<1>9. (Alone' => Alone) /\ (Runs' => Runs)
  BY <1>1 DEF Keeps, Runs
<1>. QED
  BY <1>1, <1>5, <1>6, <1>7, <1>8, <1>9 DEF WatchInv

LEMMA WatchCalls ==
  ASSUME CoreInv, AloneInv, WatchInv, NEW t \in Threads, Calls(t)
  PROVE  WatchInv'
<1>. USE DEF CoreInv
\* A step of the call of thread t, the object of which it may change.
<1>0. ASSUME Alone' => Alone, Attentive' => Attentive, end' = end, map' = map,
             drv'.payload = drv.payload, drv.requested => drv'.requested,
             hw'.enable = hw.enable, hw'.status # {} => hw.status # {}, hw.msi => hw'.msi,
             sigs' = sigs, hand' = hand,
             \A o \in Objs : /\ objs'[o].state = "live" => objs[o].state = "live"
                             /\ objs'[o].fn = objs[o].fn /\ objs'[o].init = objs[o].init
                             /\ objs'[o].handle = objs[o].handle,
             thr[t].pc # "built",
             \A u \in Threads \ {t} : thr'[u] = thr[u],
             thr[t].obj # 0 /\ objs'[thr[t].obj].state = "live" =>
               /\ Cut(t) => thr'[t].obj = thr[t].obj /\ Cut(t)'
               /\ ~ Spared(t) => thr'[t].obj = thr[t].obj /\ ~ Spared(t)'
      PROVE  WatchInv'
  <2>1. \A u \in Threads : thr[u].obj # 0 /\ objs'[thr[u].obj].state = "live" =>
          /\ Cut(u) => thr'[u].obj = thr[u].obj /\ Cut(u)'
          /\ ~ Spared(u) => thr'[u].obj = thr[u].obj /\ ~ Spared(u)'
    BY <1>0 DEF Cut, Spared
  <2>2. Runs' => Runs
    BY <1>0 DEF Runs
  <2>. QED
    BY <1>0, <2>1, <2>2, WatchSame
<1>1. ASSUME NEW pc, GoesOn(t, pc), thr'[t].second = thr[t].second,
             thr[t].pc \in {"pr", "reconfiguring"}, pc \in {"reconfiguring", "save", "programmed"},
             ghost' = ghost, objs' = objs, end' = end, map' = map, sigs' = sigs, hand' = hand,
             drv'.payload = drv.payload, drv'.requested = drv.requested,
             hw'.enable = hw.enable, hw'.status \subseteq hw.status, hw'.msi = hw.msi
      PROVE  WatchInv'
  <2>1. /\ thr'[t].pc = pc /\ thr'[t].obj = thr[t].obj
        /\ \A u \in Threads \ {t} : thr'[u] = thr[u]
    BY <1>1 DEF GoesOn, Turns
  <2>2. ~ Cut(t) /\ (~ Spared(t) => ~ Spared(t)')
    BY <1>1, <2>1 DEF Cut, Spared
  <2>3. (Alone' => Alone) /\ (Attentive' => Attentive)
    BY <1>1, SameKeeps DEF Keeps
  <2>4. hw'.status # {} => hw.status # {}
    BY <1>1
  <2>. QED
    BY <1>0, <1>1, <2>1, <2>2, <2>3, <2>4
<1>2. CASE OpenNumber(t)
  <2>1. /\ thr[t].pc \in {"idle", "reopen"} /\ thr[t].obj = 0
        /\ \A u \in Threads \ {t} : thr'[u] = thr[u]
    BY <1>2, OpenNumberStep, CallTypes DEF Turns, TypeInv, InCall, Programming
  <2>2. (Alone' => Alone) /\ (Attentive' => Attentive)
    BY <1>2, SpoilKeeps DEF OpenNumber, Keeps
  <2>3. /\ end' = end /\ map' = map /\ drv' = drv /\ hw' = hw /\ sigs' = sigs /\ hand' = hand
        /\ objs' = objs
    BY <1>2 DEF OpenNumber
  <2>. QED
    BY <1>0, <2>1, <2>2, <2>3
<1>3. CASE OpenConstruct(t)
  BY <1>3, WatchOpenConstruct
<1>4. CASE OpenSignal(t)
  BY <1>4, WatchOpenSignal
<1>5. CASE OpenRecord(t)
  BY <1>5, WatchOpenRecord
<1>6. ASSUME NEW h \in Mapped, Close(t, h) PROVE WatchInv'
  <2>1. /\ thr[t].pc = "idle" /\ thr[t].obj = 0
        /\ \A u \in Threads \ {t} : thr'[u] = thr[u]
    BY <1>6, CloseStep, CallTypes DEF Turns, TypeInv, InCall, Programming
  <2>2. (Alone' => Alone) /\ (Attentive' => Attentive)
    BY <1>6, SpoilKeeps DEF Close, Keeps
  <2>3. /\ end' = end /\ map' = map /\ drv' = drv /\ hw' = hw /\ sigs' = sigs /\ hand' = hand
        /\ objs' = objs
    BY <1>6 DEF Close
  <2>. QED
    BY <1>0, <2>1, <2>2, <2>3
<1>7. ASSUME NEW h \in Mapped, SetHandler(t, h) PROVE WatchInv'
  BY <1>7, WatchSetHandler
<1>8. ASSUME NEW h \in Mapped, NEW r \in Regions, Launch(t, h, r) PROVE WatchInv'
  <2>0. /\ thr[t].pc = "idle"
        /\ hw'.enable = hw.enable /\ hw'.msi = hw.msi /\ hw'.status = hw.status
        /\ drv'.requested = drv.requested /\ drv'.payload = drv.payload
    BY <1>8, LaunchStep
  <2>1. /\ thr[t].obj = 0 /\ thr' = thr
    BY <1>8, <2>0, CallTypes DEF Launch, TypeInv, InCall, Programming
  <2>2. (Alone' => Alone) /\ (Attentive' => Attentive)
    BY <1>8, SameKeeps DEF Launch, Keeps
  <2>3. end' = end /\ map' = map /\ sigs' = sigs /\ hand' = hand /\ objs' = objs
    BY <1>8 DEF Launch
  <2>. QED
    BY <1>0, <2>0, <2>1, <2>2, <2>3
<1>9. ASSUME NEW h \in Mapped, NEW i \in Images, NEW r \in Regions, Reprogram(t, h, i, r) PROVE WatchInv'
  <2>1. /\ thr[t].pc = "idle" /\ thr[t].obj = 0
        /\ \A u \in Threads \ {t} : thr'[u] = thr[u]
    BY <1>9, ReprogramStep, CallTypes DEF Turns, TypeInv, InCall, Programming
  <2>2. (Alone' => Alone) /\ (Attentive' => Attentive)
    BY <1>9, SpoilKeeps DEF Reprogram, Keeps
  <2>3. /\ map[h] \in Objs /\ objs' = [objs EXCEPT ![map[h]] = objs'[map[h]]]
        /\ objs'[map[h]].state = objs[map[h]].state /\ objs'[map[h]].handle = objs[map[h]].handle
        /\ objs'[map[h]].init = objs[map[h]].init /\ objs'[map[h]].fn = objs[map[h]].fn
    BY <1>9, ReprogramStep
  <2>4. \A o \in Objs : /\ objs'[o].state = "live" => objs[o].state = "live"
                        /\ objs'[o].fn = objs[o].fn /\ objs'[o].init = objs[o].init
                        /\ objs'[o].handle = objs[o].handle
    BY <2>3 DEF TypeInv
  <2>5. end' = end /\ map' = map /\ drv' = drv /\ hw' = hw /\ sigs' = sigs /\ hand' = hand
    BY <1>9 DEF Reprogram
  <2>. QED
    BY <1>0, <2>1, <2>2, <2>4, <2>5
<1>10. CASE DeleteParts(t)
  <2>1. /\ thr[t].pc = "delete" /\ thr[t].obj \in Objs
        /\ objs' = [objs EXCEPT ![thr[t].obj] = objs'[thr[t].obj]]
        /\ objs'[thr[t].obj].state = "dying"
        /\ objs'[thr[t].obj].handle = objs[thr[t].obj].handle
        /\ objs'[thr[t].obj].init = objs[thr[t].obj].init
        /\ objs'[thr[t].obj].fn = objs[thr[t].obj].fn
        /\ drv'.requested = drv.requested /\ drv'.payload = drv.payload
        /\ GoesOn(t, "closing")
    BY <1>10, DeletePartsStep
  <2>2. \A o \in Objs : /\ objs'[o].state = "live" => objs[o].state = "live"
                        /\ objs'[o].fn = objs[o].fn /\ objs'[o].init = objs[o].init
                        /\ objs'[o].handle = objs[o].handle
    BY <2>1 DEF TypeInv
  <2>3. (Alone' => Alone) /\ (Attentive' => Attentive)
    BY <1>10, SameKeeps DEF DeleteParts, Keeps
  <2>4. end' = end /\ map' = map /\ hw' = hw /\ sigs' = sigs /\ hand' = hand
    BY <1>10 DEF DeleteParts
  <2>5. \A u \in Threads \ {t} : thr'[u] = thr[u]
    BY <2>1 DEF GoesOn, Turns
  <2>. QED
    BY <1>0, <2>1, <2>2, <2>3, <2>4, <2>5
<1>11. CASE DeleteDone(t)
  BY <1>11, WatchDeleteDone
<1>12. CASE Discard(t)
  BY <1>12, WatchDiscard
<1>13. CASE PrBegin(t)
  <2>1. /\ thr[t].pc = "pr" /\ drv'.requested = drv.requested /\ drv'.payload = drv.payload
        /\ GoesOn(t, "reconfiguring") /\ thr'[t].second = thr[t].second
    BY <1>13, PrBeginStep
  <2>. QED
    BY <1>1, <1>13, <2>1 DEF PrBegin
<1>14. CASE PrEnd(t)
  <2>1. /\ thr[t].pc = "reconfiguring" /\ drv'.requested = drv.requested /\ drv'.payload = drv.payload
        /\ hw'.enable = hw.enable /\ hw'.msi = hw.msi /\ hw'.status \subseteq hw.status
        /\ GoesOn(t, "programmed") /\ thr'[t].second = thr[t].second
    BY <1>14, PrEndStep
  <2>2. ghost' = ghost /\ objs' = objs /\ end' = end /\ map' = map /\ sigs' = sigs /\ hand' = hand
    BY <1>14 DEF PrEnd
  <2>. QED
    BY <1>1, <2>1, <2>2
<1>15. CASE PrNot(t)
  <2>1. /\ thr[t].pc = "pr" /\ drv'.requested = drv.requested /\ drv'.payload = drv.payload
        /\ \E pc \in {"save", "programmed"} : GoesOn(t, pc) /\ thr'[t].second = thr[t].second
    BY <1>15, PrNotStep
  <2>2. /\ ghost' = ghost /\ objs' = objs /\ end' = end /\ map' = map /\ sigs' = sigs
        /\ hand' = hand /\ hw' = hw
    BY <1>15 DEF PrNot
  <2>. QED
    BY <1>1, <2>1, <2>2
<1>16. CASE SaveControl(t) \/ LoadControl(t)
  BY <1>16, WatchControl
<1>17. CASE Jtag(t)
  <2>1. /\ thr[t].pc = "jtag" /\ hw'.enable = hw.enable /\ hw'.msi = hw.msi
        /\ hw'.status \subseteq hw.status /\ GoesOn(t, "load")
    BY <1>17, JtagStep
  <2>2. /\ thr'[t].pc = "load" /\ thr'[t].obj = thr[t].obj
        /\ \A u \in Threads \ {t} : thr'[u] = thr[u]
    BY <2>1 DEF GoesOn, Turns
  <2>3. Cut(t)' /\ ~ Spared(t)'
    BY <2>2 DEF Cut, Spared
  <2>4. (Alone' => Alone) /\ (Attentive' => Attentive)
    BY <1>17, SameKeeps DEF Jtag, Keeps
  <2>5. end' = end /\ map' = map /\ drv' = drv /\ objs' = objs /\ sigs' = sigs /\ hand' = hand
    BY <1>17 DEF Jtag
  <2>6. hw'.status # {} => hw.status # {}
    BY <2>1
  <2>. QED
    BY <1>0, <2>1, <2>2, <2>3, <2>4, <2>5, <2>6
<1>18. CASE Programmed(t)
  <2>1. /\ thr[t].pc = "programmed" /\ thr[t].obj \in Objs
        /\ objs' = [objs EXCEPT ![thr[t].obj] = objs'[thr[t].obj]]
        /\ objs'[thr[t].obj].state = objs[thr[t].obj].state
        /\ objs'[thr[t].obj].handle = objs[thr[t].obj].handle
        /\ objs'[thr[t].obj].init = objs[thr[t].obj].init
        /\ objs'[thr[t].obj].fn = objs[thr[t].obj].fn
        /\ thr[t].failed => Turns(t, "idle", 0, 0)
        /\ ~ thr[t].failed => GoesOn(t, "delete")
    BY <1>18, ProgrammedStep
  <2>2. \A o \in Objs : /\ objs'[o].state = objs[o].state
                        /\ objs'[o].fn = objs[o].fn /\ objs'[o].init = objs[o].init
                        /\ objs'[o].handle = objs[o].handle
    BY <2>1 DEF TypeInv
  <2>3. PICK marks : /\ Keeps(marks)
                     /\ Attentive' => Attentive /\ marks \cap {"overlap", "shared", "deaf"} = {}
                     /\ thr[t].failed /\ thr[t].second => marks = {"deaf"}
    BY <1>18, SpoilKeeps DEF Programmed
  <2>4. end' = end /\ map' = map /\ drv' = drv /\ hw' = hw /\ sigs' = sigs /\ hand' = hand
    BY <1>18 DEF Programmed
  <2>5. \A u \in Threads \ {t} : thr'[u] = thr[u]
    BY <2>1 DEF GoesOn, Turns
  <2>6. ~ Cut(t)
    BY <2>1 DEF Cut
  <2>7. CASE Spared(t)
    BY <1>0, <2>1, <2>2, <2>3, <2>4, <2>5, <2>6, <2>7 DEF Keeps
  <2>8. CASE ~ Spared(t) /\ ~ thr[t].failed
    <3>1. thr'[t].obj = thr[t].obj /\ ~ Spared(t)'
      BY <2>1, <2>8 DEF GoesOn, Turns, Spared
    <3>. QED
      BY <1>0, <2>1, <2>2, <2>3, <2>4, <2>5, <2>6, <3>1 DEF Keeps
  <2>9. CASE ~ Spared(t) /\ thr[t].failed
    <3>1. ~ Attentive'
      BY <2>1, <2>3, <2>9 DEF Spared
    <3>2. (Alone' => Alone) /\ (Runs' => Runs)
      BY <2>3, <2>4 DEF Keeps, Runs
    <3>3. HandlerWasSound'
      BY <2>2 DEF WatchInv, HandlerWasSound
    <3>4. PayloadIsHandle => PayloadIsHandle'
      BY <2>1, <2>2, <2>4, <2>5 DEF PayloadIsHandle, Live
    <3>5. SetUp => SetUp'
      BY <2>1, <2>2, <2>4, <2>5 DEF SetUp, Live
    <3>. QED
      BY <3>1, <3>2, <3>3, <3>4, <3>5 DEF WatchInv
  <2>. QED
    BY <2>7, <2>8, <2>9
<1>. QED
  BY <1>2, <1>3, <1>4, <1>5, <1>6, <1>7, <1>8, <1>9, <1>10, <1>11, <1>12, <1>13, <1>14,
     <1>15, <1>16, <1>17, <1>18 DEF Calls

\* Of the board, the driver and the signal handler.

LEMMA WatchOther ==
  ASSUME CoreInv, WatchInv, Others, Alone' => Alone, Runs' => Runs,
         drv'.payload = drv.payload, drv'.requested = drv.requested,
         Attentive' /\ Runs' /\ Attentive /\ LevelIsSent /\ WatchedIsHeard => (LevelIsSent /\ WatchedIsHeard)',
         Attentive' /\ Runs' => Attentive
  PROVE  WatchInv'
<1>1. thr' = thr /\ objs' = objs /\ map' = map
  BY OthersKeep
<1>2. HandlerWasSound' /\ (PayloadIsHandle => PayloadIsHandle') /\ (SetUp => SetUp')
  BY <1>1 DEF WatchInv, HandlerWasSound, PayloadIsHandle, SetUp, Live
<1>. QED
  BY <1>2 DEF WatchInv

LEMMA WatchKernelDone ==
  ASSUME CoreInv, WatchInv, NEW r \in Regions, KernelDone(r)
  PROVE  WatchInv'
<1>1. /\ (Alone' => Alone) /\ (Attentive' => Attentive) /\ sigs' = sigs /\ hand' = hand /\ end' = end
      /\ drv' = drv /\ map' = map /\ thr' = thr /\ objs' = objs
  BY SameKeeps DEF KernelDone, Keeps
<1>2. /\ hw'.enable = hw.enable
      /\ hw'.msi <=> (hw.msi \/ (hw.enable /\ hw.status = {}))
  BY KernelDoneStep DEF CoreInv
<1>3. LevelIsSent => LevelIsSent'
  BY <1>2 DEF LevelIsSent
<1>4. WatchedIsHeard => WatchedIsHeard'
  BY <1>1, <1>2 DEF WatchedIsHeard, Watched, Told, Live
<1>. QED
  BY <1>1, <1>3, <1>4, WatchOther DEF Others, Runs

LEMMA Appended ==
  ASSUME NEW S, NEW s \in Seq(S), NEW x \in S
  PROVE  /\ Len(Append(s, x)) = Len(s) + 1 /\ Len(s) \in Nat
         /\ Append(s, x)[Len(s) + 1] = x
         /\ \A i \in 1 .. Len(s) : Append(s, x)[i] = s[i]
OBVIOUS

\* The signal carries the handle of every device that is watched: of the one
\* that is open.
LEMMA WatchIrq ==
  ASSUME CoreInv, MapInv, WatchInv, Irq
  PROVE  WatchInv'
<1>1. hand' = hand /\ end' = end /\ drv' = drv /\ map' = map /\ thr' = thr /\ objs' = objs
  BY DEF Irq
<1>2. (Alone' => Alone) /\ (Attentive' => Attentive /\ ~ drv.pr)
  BY SameKeeps, SpoilKeeps DEF Irq, Keeps
<1>3. /\ hw.msi /\ drv.requested
      /\ hw'.status = hw.status
      /\ ~ drv.pr /\ hw.status = {} => hw'.enable = hw.enable /\ sigs' = sigs
      /\ ~ drv.pr /\ hw.status # {} =>
           /\ ~ hw'.enable
           /\ sigs' = [sigs EXCEPT ![drv.task] = Append(sigs[drv.task], drv.payload)]
  BY IrqStep DEF CoreInv, TaskKnown
<1>4. ASSUME Attentive, ~ drv.pr, WatchedIsHeard PROVE (LevelIsSent /\ WatchedIsHeard)'
  <2>1. CASE hw.status = {}
    BY <1>1, <1>3, <1>4, <2>1 DEF LevelIsSent, WatchedIsHeard, Watched, Told, Live
  <2>2. CASE hw.status # {}
    <3>1. ~ hw'.enable /\ sigs' = [sigs EXCEPT ![drv.task] = Append(sigs[drv.task], drv.payload)]
      BY <1>3, <1>4, <2>2
    <3>. SUFFICES ASSUME NEW h \in Objs, Watched(h) PROVE Told(h)'
      BY <1>1, <3>1 DEF LevelIsSent, WatchedIsHeard, Watched, Live
    <3>2. Alone /\ Ordered
      BY <1>4 DEF Attentive, Alone, Ordered
    <3>3. map[h] \in Objs /\ Live(map[h]) /\ objs[map[h]].fn /\ map[h] # 0
      BY ObjsRange DEF Watched, CoreInv, TypeInv
    <3>4. objs[map[h]].init /\ \A t \in Threads : thr[t].pc = "built" => thr[t].obj # map[h]
      BY <3>3 DEF Watched, WatchInv, HandlerWasSound
    <3>5. drv.payload = h
      BY <3>2, <3>3, <3>4 DEF WatchInv, PayloadIsHandle, MapInv, SlotNamesDevice
    <3>6. PICK u \in Threads : u = drv.task
      BY <1>3 DEF CoreInv, TaskKnown
    <3>7. sigs[u] \in Seq(0 .. MaxOpens) /\ drv.payload \in 0 .. MaxOpens
      BY DEF CoreInv, TypeInv, DrvRecords
    <3>8. sigs'[u] = Append(sigs[u], h)
      BY <3>1, <3>5, <3>6 DEF CoreInv, TypeInv
    <3>9. Len(sigs'[u]) \in 1 .. Len(sigs'[u]) /\ sigs'[u][Len(sigs'[u])] = h
      BY <3>5, <3>7, <3>8, Appended
    <3>. QED
      BY <3>9 DEF Told
  <2>. QED
    BY <2>1, <2>2
<1>. QED
  BY <1>1, <1>2, <1>4, WatchOther DEF Others, Runs

LEMMA Behead ==
  ASSUME NEW S, NEW s \in Seq(S), s # <<>>, NEW i \in 1 .. Len(s), i # 1
  PROVE  i - 1 \in 1 .. Len(Tail(s)) /\ Tail(s)[i - 1] = s[i]
OBVIOUS

LEMMA WatchSignalTaken ==
  ASSUME CoreInv, WatchInv, NEW t \in Threads, SignalTaken(t)
  PROVE  WatchInv'
<1>1. /\ (Alone' => Alone) /\ (Attentive' => Attentive) /\ end' = end
      /\ drv' = drv /\ map' = map /\ thr' = thr /\ objs' = objs /\ hw' = hw
  BY SameKeeps DEF SignalTaken, Keeps
<1>2. /\ hand[t].pc = "none" /\ sigs[t] # <<>> /\ sigs' = [sigs EXCEPT ![t] = Tail(sigs[t])]
      /\ Head(sigs[t]) \notin Mapped => hand' = hand
      /\ Head(sigs[t]) \in Mapped =>
           /\ hand'[t].pc = "found" /\ hand'[t].obj = map[Head(sigs[t])]
           /\ \A u \in Threads \ {t} : hand'[u] = hand[u]
  BY SignalTakenStep DEF CoreInv
<1>3. /\ sigs'[t] = Tail(sigs[t]) /\ \A u \in Threads \ {t} : sigs'[u] = sigs[u]
      /\ sigs[t] \in Seq(0 .. MaxOpens) /\ hand[t].obj = 0
  BY <1>2 DEF CoreInv, TypeInv, HandRecords
<1>4. ASSUME NEW h \in Objs, map[h] # 0, Told(h) PROVE Told(h)'
  <2>0. h \in Mapped
    BY <1>4 DEF Mapped, CoreInv, TypeInv
  <2>1. ASSUME NEW u \in Threads, hand[u].obj = map[h] PROVE Told(h)'
    <3>1. u # t
      BY <1>3, <1>4, <2>1
    <3>2. hand'[u] = hand[u]
      BY <1>2, <3>1
    <3>. QED
      BY <1>1, <2>1, <3>2 DEF Told
  <2>2. ASSUME NEW u \in Threads, NEW i \in 1 .. Len(sigs[u]), sigs[u][i] = h PROVE Told(h)'
    <3>1. CASE u # t
      BY <1>3, <2>2, <3>1 DEF Told
    <3>2. CASE u = t /\ i = 1
      <4>1. Head(sigs[t]) = h
        BY <1>2, <1>3, <2>2, <3>2
      <4>. QED
        BY <1>1, <1>2, <2>0, <4>1 DEF Told
    <3>3. CASE u = t /\ i # 1
      <4>0. PICK q \in Seq(0 .. MaxOpens) : q = sigs[t]
        BY <1>3
      <4>2. q # <<>> /\ i \in 1 .. Len(q) /\ i # 1 /\ q[i] = h /\ sigs'[t] = Tail(q)
        BY <1>2, <1>3, <2>2, <3>3, <4>0
      <4>3. i - 1 \in 1 .. Len(Tail(q)) /\ Tail(q)[i - 1] = q[i]
        BY <4>2, Behead
      <4>1. i - 1 \in 1 .. Len(sigs'[t]) /\ sigs'[t][i - 1] = h
        BY <4>2, <4>3
      <4>. QED
        BY <4>1 DEF Told
    <3>. QED
      BY <3>1, <3>2, <3>3
  <2>. QED
    BY <1>4, <2>1, <2>2 DEF Told
<1>5. (LevelIsSent => LevelIsSent') /\ (WatchedIsHeard => WatchedIsHeard')
  BY <1>1, <1>4 DEF LevelIsSent, WatchedIsHeard, Watched, Live
<1>. QED
  BY <1>1, <1>5, WatchOther DEF Others, Runs

LEMMA WatchCallback ==
  ASSUME CoreInv, WatchInv, NEW t \in Threads, Callback(t) \/ UnmaskKernel(t)
  PROVE  WatchInv'
<1>1. /\ (Alone' => Alone) /\ (Attentive' => Attentive)
      /\ map' = map /\ thr' = thr /\ objs' = objs /\ sigs' = sigs
  BY SameKeeps DEF Callback, UnmaskKernel, Keeps
<1>2. drv'.payload = drv.payload /\ drv'.requested = drv.requested
  BY CallbackStep, UnmaskKernelStep DEF CoreInv
<1>3. CASE ~ Reachable(t)
  <2>1. ~ Runs'
    BY <1>3, CallbackStep, UnmaskKernelStep DEF CoreInv, Runs
  <2>. QED
    BY <1>1, <1>2, <2>1, WatchOther DEF Others
<1>4. CASE Reachable(t) /\ Callback(t)
  <2>1. /\ end' = end /\ hand'[t].obj = hand[t].obj
        /\ \A u \in Threads \ {t} : hand'[u] = hand[u]
        /\ hw'.enable = hw.enable /\ hw'.msi = hw.msi
        /\ hw'.status # {} => hw.status # {}
    BY <1>4, CallbackStep DEF CoreInv
  <2>2. WatchedIsHeard => WatchedIsHeard'
    <3>1. \A u \in Threads : hand'[u].obj = hand[u].obj
      BY <2>1
    <3>. QED
      BY <1>1, <2>1, <3>1 DEF WatchedIsHeard, Watched, Told, Live
  <2>. QED
    BY <1>1, <1>2, <1>4, <2>1, <2>2, LevelSame, WatchOther DEF Others, Runs
<1>5. CASE Reachable(t) /\ UnmaskKernel(t)
  <2>1. /\ end' = end /\ hw'.enable /\ hw'.status = hw.status
        /\ hw'.msi <=> (hw.msi \/ (hw.status # {} /\ ~ hw.enable))
    BY <1>5, UnmaskKernelStep DEF CoreInv
  <2>2. WatchedIsHeard' /\ (LevelIsSent => LevelIsSent')
    BY <2>1 DEF WatchedIsHeard, LevelIsSent
  <2>. QED
    BY <1>1, <1>2, <1>5, <2>1, <2>2, WatchOther DEF Others, Runs
<1>. QED
  BY <1>3, <1>4, <1>5

LEMMA WatchNext ==
  ASSUME CoreInv, MapInv, AloneInv, WatchInv, [Next]_vars
  PROVE  WatchInv'
<1>1. CASE \E t \in Threads : Calls(t)
  BY <1>1, WatchCalls
<1>2. CASE CtrlC \/ UNCHANGED vars
  <2>1. /\ hw' = hw /\ sigs' = sigs /\ hand' = hand /\ drv' = drv
        /\ (Alone' => Alone) /\ (Attentive' => Attentive) /\ (Runs' => Runs)
        /\ thr' = thr /\ objs' = objs /\ map' = map
    BY <1>2, SameKeeps DEF CtrlC, vars, Keeps, Runs
  <2>2. (LevelIsSent => LevelIsSent') /\ (WatchedIsHeard => WatchedIsHeard')
    BY <2>1 DEF LevelIsSent, WatchedIsHeard, Watched, Told, Live
  <2>. QED
    BY <1>2, <2>1, <2>2, WatchOther DEF Others
<1>3. CASE FreeAll
  <2>1. ~ Runs' /\ thr' = thr /\ objs' = objs /\ (Alone' => Alone) /\ drv'.payload = drv.payload
    BY <1>3, SameKeeps, FreeAllStep DEF CoreInv, FreeAll, Keeps, Runs
  <2>2. HandlerWasSound' /\ (PayloadIsHandle => PayloadIsHandle')
    BY <2>1 DEF WatchInv, HandlerWasSound, PayloadIsHandle, Live
  <2>. QED
    BY <2>1, <2>2 DEF WatchInv
<1>. QED
  BY <1>1, <1>2, <1>3, NextSplit, WatchKernelDone, WatchIrq, WatchSignalTaken, WatchCallback DEF Others

LEMMA WatchInit == Init => WatchInv
<1>. SUFFICES ASSUME Init PROVE WatchInv
  OBVIOUS
<1>1. /\ \A o \in Objs : ~ objs[o].fn /\ ~ Live(o)
      /\ \A h \in Objs : map[h] = 0
      /\ ~ hw.enable
  BY DEF Init, Unbuilt, Live
<1>. QED
  BY <1>1 DEF WatchInv, HandlerWasSound, PayloadIsHandle, SetUp, LevelIsSent, WatchedIsHeard, Watched

\* No completion is lost: when a kernel of a ready device is done, the board's
\* message, the driver's signal or the handler is under way to report it
\* (aclpci_irq masks until the MMD has served the kernel and unmasks).
THEOREM MmdCompletionOnItsWay == Spec => []CompletionOnItsWay
<1>1. CoreInv /\ WatchInv => CompletionOnItsWay
  <2>. SUFFICES ASSUME CoreInv, WatchInv, NEW h \in Objs, Ready(h), hw.status # {}
                PROVE  (hw.msi /\ drv.requested) \/ Told(h)
    BY DEF CompletionOnItsWay, Told
  <2>1. /\ Runs /\ Attentive /\ map[h] # 0 /\ objs[map[h]].fn /\ Live(map[h])
        /\ \A t \in Threads : thr[t].obj # map[h]
    BY DEF Ready, Attentive
  <2>2. map[h] \in Objs
    BY <2>1, ObjsRange DEF CoreInv, TypeInv
  <2>3. Watched(h)
    BY <2>1 DEF Watched
  <2>4. drv.requested
    BY <2>1, <2>2, AttentiveAlone DEF WatchInv, SetUp
  <2>. QED
    BY <2>1, <2>3, <2>4 DEF WatchInv, WatchedIsHeard, LevelIsSent
<1>2. CoreInv /\ MapInv /\ AloneInv /\ WatchInv /\ [Next]_vars => WatchInv'
  BY WatchNext
<1>. QED
  BY <1>1, <1>2, WatchInit, AloneInvariant, PTL DEF Spec
=============================================================================
