-------------------------- MODULE DrmDisplayProofs --------------------------
(***************************************************************************)
(* Proofs about the DRM display tests (module DrmDisplay) and the buffers  *)
(* they draw (module TestBuffer), for every board and command line, every  *)
(* size of picture and pitch, and whichever calls fail.                    *)
(***************************************************************************)
EXTENDS DrmDisplay, SequenceTheorems, NaturalsInduction, WellFoundedInduction, TLAPS

-----------------------------------------------------------------------------
(* Numbers of connectors. *)

LEMMA FirstLeast ==
  ASSUME NEW S \in SUBSET Nat, S # {}
  PROVE  First(S) \in S
<1>1. \E x \in S : \A y \in S : x <= y
  <2>1. PICK x \in S : \A y \in S : <<y, x>> \notin OpToRel(<, Nat)
    BY NatLessThanWellFounded, WFMin
  <2>2. \A y \in S : x <= y
    <3>1. ASSUME NEW y \in S PROVE x <= y
      <4>1. x \in Nat /\ y \in Nat
        OBVIOUS
      <4>2. ~(y < x)
        BY <2>1, <4>1 DEF OpToRel
      <4>3. QED
        BY <4>1, <4>2
    <3>2. QED
      BY <3>1
  <2>3. QED
    BY <2>2
<1>2. QED
  BY <1>1 DEF First

LEMMA LatestGreatest ==
  ASSUME NEW n \in Nat, NEW S \in SUBSET (1 .. n), S # {}
  PROVE  Latest(S) \in S
<1> DEFINE T == {n - x : x \in S}
<1>1. T \in SUBSET Nat /\ T # {}
  <2>1. \A x \in S : n - x \in Nat
    OBVIOUS
  <2>2. QED
    BY <2>1
<1>2. PICK t \in T : \A y \in T : <<y, t>> \notin OpToRel(<, Nat)
  BY <1>1, NatLessThanWellFounded, WFMin
<1>3. PICK x \in S : t = n - x
  OBVIOUS
<1>4. \A y \in S : y <= x
  <2>1. ASSUME NEW y \in S PROVE y <= x
    <3>1. n - y \in T /\ n - y \in Nat /\ t \in Nat
      OBVIOUS
    <3>2. ~(n - y < t)
      BY <1>2, <3>1 DEF OpToRel
    <3>3. QED
      BY <1>3, <3>1, <3>2
  <2>2. QED
    BY <2>1
<1>5. QED
  BY <1>4 DEF Latest

-----------------------------------------------------------------------------
(* What the kernel's calls leave as it was. *)

\* Where a program may be before anything is on a display, once it has its
\* displays, and once it has CRTCs.
Looking == {"open", "connector", "encoder", "hdmi_encoder", "mode", "hdmi_mode", "plane", "kms"}
Before == Looking \cup {"properties", "set_plane", "set_plane1", "set_plane2", "set_crtc"}
Setting == {"properties", "set_plane", "set_plane1", "set_plane2", "set_crtc", "set_hdmi"}
Undoing == {"restore", "remove_hdmi", "remove_lcd", "remove_planes", "end"}
HasCrtcs == {"mode", "hdmi_mode", "plane", "kms", "shown"} \cup Setting \cup Undoing
HasLcd == {"encoder", "hdmi_encoder"} \cup HasCrtcs
Stages == {"open", "connector", "exit", "direct"} \cup HasLcd

DevFields == {"lcd", "hdmi", "lcdCrtc", "hdmiCrtc", "plane", "oid", "at", "why"}
KmsFields == {"route", "image", "plane", "props"}

\* The displays found are connectors of different kinds, the image of the first
\* CRTC is none of the program's, and nothing failed yet but for the restoring.
DevInv ==
  /\ pc \in Stages /\ line \in Lines
  /\ (line.app = "direct" => pc \in {"direct", "end"}) /\ (pc = "direct" => line.app = "direct")
  /\ DOMAIN dev = DevFields /\ dev.oid \in {"nothing", "first"}
  /\ (pc \in Undoing \ {"restore"} => dev.at \in {"", "restore"}) /\ (pc \in HasLcd \ (Undoing \ {"restore"}) => dev.at = "")
  /\ pc \in {"open", "connector", "direct"} => dev.at = ""
  /\ line.app # "direct" =>
       /\ board \in Boards
       /\ pc \in HasLcd => dev.lcd \in Connectors
       /\ pc \in HasLcd /\ Clonelike => dev.hdmi \in Connectors /\ dev.hdmi # dev.lcd
       /\ pc = "hdmi_encoder" => Clonelike
       /\ pc \in HasCrtcs /\ Clonelike => dev.hdmiCrtc # Off
       /\ pc \in {"set_hdmi", "set_plane", "plane", "hdmi_mode"} => Clonelike
       /\ pc \in {"properties", "set_plane1", "set_plane2"} => ~Clonelike

KmsInv ==
  /\ DOMAIN kms = KmsFields
  /\ line.app # "direct" =>
       /\ DOMAIN kms.route = Connectors /\ DOMAIN kms.image = Crtcs
       /\ DOMAIN kms.plane = DOMAIN board.planes /\ DOMAIN kms.props = DOMAIN board.planes
       /\ \A c \in Connectors : kms.route[c] \in Crtcs \cup {Off}

\* Until the first mode set no display has changed.
EarlyInv ==
  line.app # "direct" =>
    /\ pc \in Before => kms.route = Initially(board).route /\ kms.image = Initially(board).image
    /\ pc \in Looking \cup {"properties"} => kms.props = Initially(board).props

\* The LCD shows image on its CRTC, which it can be given again.
LcdShows(image) ==
  /\ dev.lcdCrtc \in Crtcs /\ kms.route[dev.lcd] = dev.lcdCrtc /\ kms.image[dev.lcdCrtc] = image
  /\ \E e \in board.connectors[dev.lcd].encs : e \in DOMAIN board.encoders /\ dev.lcdCrtc \in Encoder(e).possible

LcdOff == kms.route[dev.lcd] = Off

LcdInv ==
  line.app # "direct" =>
    /\ pc = "set_hdmi" => LcdShows("lcd")
    /\ pc \in {"shown", "restore"} => IF Apart THEN LcdShows("lcd") ELSE LcdOff
    /\ pc \in Undoing \ {"restore"} /\ dev.at = "" => LcdShows(dev.oid) /\ dev.oid # "nothing"
    /\ pc \in Undoing \ {"restore"} /\ dev.at # "" => LcdOff \/ (LcdShows("lcd") /\ pc # "end")

HdmiInv ==
  pc = "shown" /\ Clonelike =>
    /\ kms.route[dev.hdmi] = dev.hdmiCrtc
    /\ kms.image[dev.hdmiCrtc] = IF line.app = "clone" THEN "lcd" ELSE "hdmi"

\* Two planes asked for; the one and the other have been set.
TwoPlanes == line.app = "zalpha" /\ Len(line.w) = 2 /\ line.w[1].id # line.w[2].id
PlaneOn(p) == p \in DOMAIN board.planes /\ kms.plane[p].crtc = dev.lcdCrtc

PropsInv ==
  /\ \A i \in 1 .. 2, j \in 1 .. 3 :
       line.w[i].id \in DOMAIN board.planes =>
         kms.props[line.w[i].id][j] \in {DefaultProps[j]} \cup ({line.w[i].values[j]} \cap Allowed[j])
  /\ \A p \in DOMAIN board.planes \ {line.w[1].id, line.w[2].id} : kms.props[p] = DefaultProps

PlanesInv ==
  /\ pc \in {"set_crtc", "set_hdmi", "shown"} /\ Clonelike =>
       kms.plane[dev.plane] = [crtc |-> dev.lcdCrtc, fb |-> "plane1"]
  /\ TwoPlanes =>
       /\ pc \in {"set_plane2", "set_crtc", "shown"} => PlaneOn(line.w[1].id)
       /\ pc \in {"set_crtc", "shown"} => PlaneOn(line.w[2].id)
       /\ pc \in {"set_plane1", "set_plane2", "set_crtc", "shown"} => PropsInv

\* A program that gave up, and one that ended, left nothing behind.
LeftInv ==
  /\ pc = "exit" =>
       IF dev.at = "set_hdmi" THEN Shown(kms, dev.lcd) = "nothing"
       ELSE \A c \in Connectors : Shown(kms, c) = Shown(Initially(board), c)
  /\ pc \in {"exit", "end"} /\ line.app # "direct" =>
       /\ \A x \in Crtcs : kms.image[x] \notin Framebuffers
       /\ \A p \in DOMAIN kms.plane : kms.plane[p].fb \notin Framebuffers

LEMMA SetCrtcFacts ==
  ASSUME NEW k, DOMAIN k = KmsFields, NEW x, NEW fb, NEW c \in Connectors
  PROVE  LET r == SetCrtc(k, x, fb, c)
         IN /\ DOMAIN r = KmsFields /\ r.plane = k.plane /\ r.props = k.props
            /\ DOMAIN r.route = Connectors /\ DOMAIN r.image = Crtcs
            /\ r.route[c] = x /\ (x \in Crtcs => r.image[x] = fb)
            /\ \A d \in Connectors \ {c} : r.route[d] = IF k.route[d] = x THEN Off ELSE k.route[d]
            /\ \A d \in Connectors, y \in Crtcs :
                 d # c /\ k.route[d] = y /\ y # x => r.image[y] = k.image[y]
BY DEF SetCrtc, KmsFields

LEMMA RmFBFacts ==
  ASSUME NEW k, DOMAIN k = KmsFields, NEW fbs
  PROVE  LET r == RmFB(k, fbs)
         IN /\ DOMAIN r = KmsFields /\ r.props = k.props
            /\ DOMAIN r.route = Connectors /\ DOMAIN r.image = Crtcs /\ DOMAIN r.plane = DOMAIN k.plane
            /\ \A x \in Crtcs : r.image[x] = IF k.image[x] \in fbs THEN "nothing" ELSE k.image[x]
            /\ \A c \in Connectors :
                 r.route[c] = IF k.route[c] # Off /\ k.image[k.route[c]] \in fbs THEN Off ELSE k.route[c]
            /\ \A p \in DOMAIN k.plane :
                 \/ r.plane[p] = k.plane[p] /\ k.plane[p].fb \notin fbs
                 \/ r.plane[p] = [crtc |-> Off, fb |-> "none"]
BY DEF RmFB, KmsFields

LEMMA UndoSteps ==
  /\ pc = "shown" => UndoNext = "restore"
  /\ pc = "restore" => UndoNext = "remove_hdmi"
  /\ pc = "remove_hdmi" => UndoNext = "remove_lcd"
  /\ pc = "remove_lcd" => UndoNext = "remove_planes"
  /\ pc = "remove_planes" => UndoNext = "end"
<1>1. /\ UndoOrder[1] = "restore" /\ UndoOrder[2] = "remove_hdmi" /\ UndoOrder[3] = "remove_lcd"
      /\ UndoOrder[4] = "remove_planes" /\ UndoOrder[5] = "end"
  BY DEF UndoOrder
<1>2. \A i \in 1 .. 4 : i = 1 \/ i = 2 \/ i = 3 \/ i = 4
  OBVIOUS
<1> DEFINE at == CHOOSE i \in 1 .. 4 : UndoOrder[i] = pc
<1>3. ASSUME NEW n \in 1 .. 4, UndoOrder[n] = pc
      PROVE  at = n
  <2>1. at \in 1 .. 4 /\ UndoOrder[at] = pc
    BY <1>3
  <2> HIDE DEF at
  <2>2. QED
    BY <1>1, <1>2, <1>3, <2>1
<1>4. pc # "shown" => UndoNext = UndoOrder[1 + at]
  BY DEF UndoNext
<1> HIDE DEF at
<1>5. pc = "restore" => at = 1
  BY <1>1, <1>3, 1 \in 1 .. 4
<1>6. pc = "remove_hdmi" => at = 2
  BY <1>1, <1>3, 2 \in 1 .. 4
<1>7. pc = "remove_lcd" => at = 3
  BY <1>1, <1>3, 3 \in 1 .. 4
<1>8. pc = "remove_planes" => at = 4
  BY <1>1, <1>3, 4 \in 1 .. 4
<1>9. pc = "shown" => UndoNext = UndoOrder[1]
  BY DEF UndoNext
<1>10. QED
  BY <1>1, <1>4, <1>5, <1>6, <1>7, <1>8, <1>9

-----------------------------------------------------------------------------
(* Looking the displays up. *)

\* The invariant: what each stage has looked up, shown or undone.
DispInv == DevInv /\ KmsInv /\ EarlyInv /\ LcdInv /\ HdmiInv /\ PlanesInv /\ LeftInv

LEMMA BoardFacts ==
  ASSUME board \in Boards
  PROVE  /\ \E n \in Nat : Connectors = 1 .. n
         /\ CrtcAt(1) \in Crtcs /\ Off \notin Crtcs
<1>1. /\ board.crtcs \in Seq(Nat \ {0}) /\ board.crtcs # <<>>
      /\ board.connectors \in Seq([type : STRING, live : BOOLEAN, encs : SUBSET Nat, enc : Nat,
                                   modes : SUBSET (Nat \X Nat)])
  BY BoardsAssumption
<1>2. Len(board.connectors) \in Nat /\ DOMAIN board.connectors = 1 .. Len(board.connectors)
  BY <1>1, LenProperties
<1>3. 1 \in DOMAIN board.crtcs /\ \A k \in DOMAIN board.crtcs : board.crtcs[k] # 0
  <2>1. /\ Len(board.crtcs) \in Nat /\ Len(board.crtcs) # 0 /\ DOMAIN board.crtcs = 1 .. Len(board.crtcs)
        /\ \A k \in 1 .. Len(board.crtcs) : board.crtcs[k] \in Nat \ {0}
    BY <1>1, LenProperties, EmptySeq, ElementOfSeq
  <2>2. QED
    BY <2>1
<1>4. QED
  BY <1>2, <1>3 DEF Connectors, Crtcs, CrtcAt, Off

\* What the displays show at the start.
LEMMA InitialDisplays ==
  ASSUME board \in Boards
  PROVE  LET k == Initially(board)
         IN /\ DOMAIN k.route = Connectors /\ DOMAIN k.image = Crtcs
            /\ \A c \in Connectors : k.route[c] \in Crtcs \cup {Off}
            /\ \A x \in Crtcs : k.image[x] \notin Framebuffers
            /\ k.image[CrtcAt(1)] \in {"nothing", "first"}
<1>1. \A c \in Connectors : board.connectors[c].enc = Off \/ board.connectors[c].enc \in DOMAIN board.encoders
  BY BoardsAssumption DEF Connectors, Off
<1>2. \A e \in DOMAIN board.encoders : board.encoders[e].crtc \in Crtcs \cup {Off}
  BY BoardsAssumption DEF Crtcs, CrtcAt, Off
<1>3. CrtcAt(1) \in Crtcs
  BY BoardFacts
<1>4. QED
  BY <1>1, <1>2, <1>3 DEF Initially, Connectors, Crtcs, CrtcAt, Framebuffers

LEMMA DispInit ==
  ASSUME Init
  PROVE  DispInv
<1>1. /\ line \in Lines /\ dev = NoDevice /\ kms = Initially(board)
      /\ IF line.app = "direct" THEN pc = "direct" ELSE pc = "open"
      /\ line.app # "direct" => board \in Boards
  BY DEF Init
<1>2. DevInv
  BY <1>1 DEF DevInv, NoDevice, DevFields, Stages, HasLcd, HasCrtcs, Setting, Undoing
<1>3. DOMAIN kms = KmsFields /\ DOMAIN kms.plane = DOMAIN board.planes /\ DOMAIN kms.props = DOMAIN board.planes
  BY <1>1 DEF Initially, KmsFields
<1>4. KmsInv
  BY <1>1, <1>3, InitialDisplays DEF KmsInv
<1>5. EarlyInv
  BY <1>1 DEF EarlyInv
<1>6. QED
  BY <1>1, <1>2, <1>4, <1>5 DEF DispInv, LcdInv, HdmiInv, PlanesInv, LeftInv, Undoing

\* What the displays show of framebuffers that are removed.
LEMMA Removed ==
  ASSUME DOMAIN kms = KmsFields, line.app # "direct", kms' = RmFB(kms, Framebuffers), UNCHANGED board
  PROVE  /\ \A x \in Crtcs : kms'.image[x] \notin Framebuffers
         /\ \A p \in DOMAIN kms'.plane : kms'.plane[p].fb \notin Framebuffers
<1>1. /\ DOMAIN kms'.plane = DOMAIN kms.plane
      /\ \A x \in Crtcs : kms'.image[x] = IF kms.image[x] \in Framebuffers THEN "nothing" ELSE kms.image[x]
      /\ \A p \in DOMAIN kms.plane :
           \/ kms'.plane[p] = kms.plane[p] /\ kms.plane[p].fb \notin Framebuffers
           \/ kms'.plane[p] = [crtc |-> Off, fb |-> "none"]
  BY RmFBFacts
<1>2. "nothing" \notin Framebuffers /\ "none" \notin Framebuffers
  BY DEF Framebuffers
<1>3. QED
  BY <1>1, <1>2

\* A program that gives up: the device is closed, and nothing is shown of it.
LEMMA GivenUp ==
  ASSUME DispInv, pc \in Before \cup {"set_hdmi"}, UNCHANGED <<board, line>>, pc' = "exit",
         kms' = RmFB(kms, Framebuffers), \E why : dev' = [dev EXCEPT !.at = pc, !.why = why]
  PROVE  DispInv'
<1>1. line.app # "direct" /\ board \in Boards /\ line \in Lines
  BY DEF DispInv, DevInv, Before, Looking
<1>2. DOMAIN dev' = DevFields /\ dev'.oid = dev.oid /\ dev.oid \in {"nothing", "first"} /\ dev'.at = pc /\ dev'.lcd = dev.lcd
  BY DEF DispInv, DevInv, DevFields
<1>3. DevInv'
  BY <1>1, <1>2 DEF DevInv, Stages, HasLcd, HasCrtcs, Setting, Undoing
<1>4. /\ DOMAIN kms = KmsFields /\ DOMAIN kms.route = Connectors /\ DOMAIN kms.plane = DOMAIN board.planes
      /\ \A c \in Connectors : kms.route[c] \in Crtcs \cup {Off}
      /\ DOMAIN kms.props = DOMAIN board.planes
  BY <1>1 DEF DispInv, KmsInv
<1>5. /\ DOMAIN kms' = KmsFields /\ DOMAIN kms'.route = Connectors /\ DOMAIN kms'.image = Crtcs
      /\ DOMAIN kms'.plane = DOMAIN kms.plane /\ kms'.props = kms.props
      /\ \A x \in Crtcs : kms'.image[x] = IF kms.image[x] \in Framebuffers THEN "nothing" ELSE kms.image[x]
      /\ \A c \in Connectors :
           kms'.route[c] = IF kms.route[c] # Off /\ kms.image[kms.route[c]] \in Framebuffers THEN Off ELSE kms.route[c]
  BY <1>4, RmFBFacts
<1>6. Connectors' = Connectors /\ Crtcs' = Crtcs /\ Off \notin Crtcs
  BY <1>1, BoardFacts DEF Connectors, Crtcs, CrtcAt
<1>7. KmsInv'
  <2>1. \A c \in Connectors : kms'.route[c] \in Crtcs \cup {Off}
    BY <1>4, <1>5
  <2>2. QED
    BY <1>4, <1>5, <1>6, <2>1 DEF KmsInv
<1>8. LeftInv'
  <2>1. CASE pc = "set_hdmi"
    <3>1. dev.lcd \in Connectors /\ LcdShows("lcd")
      BY <1>1, <2>1 DEF DispInv, DevInv, LcdInv, HasLcd, HasCrtcs, Setting
    <3>2. kms.route[dev.lcd] # Off /\ kms.image[kms.route[dev.lcd]] \in Framebuffers
      BY <1>6, <3>1 DEF LcdShows, Framebuffers
    <3>3. kms'.route[dev'.lcd] = Off
      BY <1>2, <1>5, <3>1, <3>2
    <3>4. QED
      BY <1>1, <1>2, <1>4, <1>6, <2>1, <3>3, Removed DEF LeftInv, Shown
  <2>2. CASE pc # "set_hdmi"
    <3>1. /\ kms.route = Initially(board).route /\ kms.image = Initially(board).image
          /\ \A x \in Crtcs : kms.image[x] \notin Framebuffers
      BY <1>1, <2>2, InitialDisplays DEF DispInv, EarlyInv
    <3>2. ASSUME NEW c \in Connectors PROVE Shown(kms', c) = Shown(Initially(board), c)
      <4>1. kms.route[c] = Off \/ kms.route[c] \in Crtcs
        BY <1>4
      <4>2. kms'.route[c] = kms.route[c] /\ (kms.route[c] # Off => kms'.image[kms.route[c]] = kms.image[kms.route[c]])
        BY <1>5, <3>1, <4>1
      <4>3. QED
        BY <3>1, <4>2 DEF Shown
    <3>3. QED
      BY <1>1, <1>2, <1>4, <1>6, <2>2, <3>2, Removed DEF LeftInv
  <2>3. QED
    BY <2>1, <2>2
<1>9. QED
  BY <1>3, <1>7, <1>8 DEF DispInv, EarlyInv, LcdInv, HdmiInv, PlanesInv, Undoing, Before, Looking

\* A step of the search: dev alone changes.
LEMMA Searched ==
  ASSUME DispInv, DevInv', UNCHANGED <<board, line, kms>>, line.app # "direct", pc \in Looking,
         pc' \in {"connector", "encoder", "hdmi_encoder", "mode", "hdmi_mode", "plane", "kms", "set_plane", "properties"}
  PROVE  DispInv'
<1>1. KmsInv'
  BY DEF DispInv, KmsInv, Connectors, Crtcs, CrtcAt
<1>2. EarlyInv'
  <2>1. pc' \in Before /\ pc \in Before /\ (pc' \in Looking \cup {"properties"} => pc \in Looking)
    BY DEF Before, Looking
  <2>2. QED
    BY <2>1 DEF DispInv, EarlyInv
<1>3. QED
  BY <1>1, <1>2 DEF DispInv, LcdInv, HdmiInv, PlanesInv, LeftInv, Undoing

LEMMA SeenConnectors ==
  ASSUME board \in Boards, NEW n \in Connectors, NEW type
  PROVE  SeenBy(n, type) # {} => Latest(SeenBy(n, type)) \in SeenBy(n, type) /\ Latest(SeenBy(n, type)) \in Connectors
<1>1. PICK m \in Nat : Connectors = 1 .. m
  BY BoardFacts
<1>2. n \in Nat /\ SeenBy(n, type) \in SUBSET (1 .. n) /\ 1 .. n \subseteq Connectors
  BY <1>1 DEF SeenBy
<1>3. QED
  BY <1>2, LatestGreatest

LEMMA LookStep ==
  ASSUME DispInv, Look
  PROVE  DispInv'
<1>1. CASE \E why : Exit(why)
  <2>1. pc \in Looking
    BY DEF Looking, Look, Open, GetConnectors, GetConnector, GetLcdEncoder, GetHdmiEncoder, GetEncoder,
           GetLcdMode, GetHdmiMode, GetPlaneId, KmsCreate
  <2>2. QED
    BY <1>1, <2>1, GivenUp DEF Exit, Before
<1>2. CASE ~(\E why : Exit(why))
  <2>d. /\ line.app # "direct" /\ board \in Boards /\ line \in Lines /\ DOMAIN dev = DevFields
        /\ dev.oid \in {"nothing", "first"} /\ pc \in Looking /\ dev.at = ""
    BY DEF Looking, HasLcd, HasCrtcs, Undoing, DispInv, DevInv, Look, Open, GetConnectors, GetConnector, GetLcdEncoder, GetHdmiEncoder, GetEncoder,
           GetLcdMode, GetHdmiMode, GetPlaneId, KmsCreate
  <2> USE DEF Goto
  <2>1. CASE Open
    <3>1. pc = "open" /\ pc' = "connector" /\ dev' = [dev EXCEPT !.oid = kms.image[CrtcAt(1)]] /\ UNCHANGED <<board, line, kms>>
      BY <1>2, <2>1 DEF Open
    <3>a. kms.image[CrtcAt(1)] \in {"nothing", "first"}
      BY <2>d, <3>1, InitialDisplays DEF DispInv, EarlyInv, Before, Looking
    <3>2. DOMAIN dev' = DevFields /\ dev'.oid \in {"nothing", "first"} /\ dev'.at = dev.at
      BY <2>d, <3>1, <3>a DEF DevFields
    <3>3. DevInv'
      BY <2>d, <3>1, <3>2 DEF DevInv, Stages, HasLcd, HasCrtcs, Setting, Undoing
    <3>4. QED
      BY <2>d, <3>1, <3>3, Searched
  <2>2. CASE GetConnectors
    <3> DEFINE enough == {n \in Connectors : SeenBy(n, "lcd") # {} /\ SeenBy(n, "hdmi") # {}}
               n == First(enough)
    <3>1. /\ Clonelike /\ enough # {} /\ pc' = "encoder" /\ UNCHANGED <<board, line, kms>>
          /\ dev' = [dev EXCEPT !.lcd = Latest(SeenBy(n, "lcd")), !.hdmi = Latest(SeenBy(n, "hdmi"))]
      BY <1>2, <2>2 DEF GetConnectors
    <3>2. n \in enough
      <4>0. PICK m \in Nat : Connectors = 1 .. m
        BY <2>d, BoardFacts
      <4>1. enough \in SUBSET Nat
        BY <4>0
      <4> HIDE DEF enough
      <4>2. QED
        BY <3>1, <4>1, FirstLeast
    <3>3. n \in Connectors /\ SeenBy(n, "lcd") # {} /\ SeenBy(n, "hdmi") # {}
      BY <3>2
    <3> HIDE DEF enough, n
    <3>4. /\ Latest(SeenBy(n, "lcd")) \in SeenBy(n, "lcd") /\ Latest(SeenBy(n, "lcd")) \in Connectors
          /\ Latest(SeenBy(n, "hdmi")) \in SeenBy(n, "hdmi") /\ Latest(SeenBy(n, "hdmi")) \in Connectors
      BY <2>d, <3>3, SeenConnectors
    <3>5. Latest(SeenBy(n, "lcd")) # Latest(SeenBy(n, "hdmi"))
      BY <3>4 DEF SeenBy, Live
    <3>6. /\ DOMAIN dev' = DevFields /\ dev'.lcd = Latest(SeenBy(n, "lcd")) /\ dev'.hdmi = Latest(SeenBy(n, "hdmi"))
          /\ dev'.oid = dev.oid /\ dev'.at = dev.at
      BY <2>d, <3>1 DEF DevFields
    <3>7. DevInv'
      BY <2>d, <3>1, <3>4, <3>5, <3>6
         DEF DevInv, Clonelike, Connectors, Stages, HasLcd, HasCrtcs, Setting, Undoing
    <3>8. QED
      BY <2>d, <3>1, <3>7, Searched
  <2>3. CASE GetConnector
    <3> DEFINE live == {c \in Connectors : board.connectors[c].live}
    <3>1. /\ ~Clonelike /\ live # {} /\ pc' = "encoder" /\ UNCHANGED <<board, line, kms>>
          /\ dev' = [dev EXCEPT !.lcd = First(live)]
      BY <1>2, <2>3 DEF GetConnector
    <3>2. First(live) \in Connectors
      <4>0. PICK m \in Nat : Connectors = 1 .. m
        BY <2>d, BoardFacts
      <4>1. live \in SUBSET Nat /\ live \subseteq Connectors
        BY <4>0
      <4> HIDE DEF live
      <4>2. QED
        BY <3>1, <4>1, FirstLeast
    <3>3. DOMAIN dev' = DevFields /\ dev'.lcd \in Connectors /\ dev'.oid = dev.oid /\ dev'.at = dev.at
      BY <2>d, <3>1, <3>2 DEF DevFields
    <3>4. DevInv'
      BY <2>d, <3>1, <3>3 DEF DevInv, Clonelike, Connectors, Stages, HasLcd, HasCrtcs, Setting, Undoing
    <3>5. QED
      BY <2>d, <3>1, <3>4, Searched
  <2>4. CASE GetLcdEncoder \/ GetHdmiEncoder
    <3>1. PICK x :
            /\ x # Off /\ Clonelike /\ UNCHANGED <<board, line, kms>>
            /\ \/ pc = "encoder" /\ pc' = "hdmi_encoder" /\ dev' = [dev EXCEPT !.lcdCrtc = x]
               \/ pc = "hdmi_encoder" /\ pc' = "mode" /\ dev' = [dev EXCEPT !.hdmiCrtc = x]
      BY <1>2, <2>4, <2>d DEF GetLcdEncoder, GetHdmiEncoder, DispInv, DevInv
    <3>2. /\ DOMAIN dev' = DevFields /\ dev'.lcd = dev.lcd /\ dev'.hdmi = dev.hdmi /\ dev'.oid = dev.oid /\ dev'.at = dev.at
          /\ pc = "hdmi_encoder" => dev'.hdmiCrtc = x
      BY <2>d, <3>1 DEF DevFields
    <3>3. dev.lcd \in Connectors /\ dev.hdmi \in Connectors /\ dev.hdmi # dev.lcd
      BY <2>d, <3>1 DEF DispInv, DevInv, HasLcd
    <3>4. DevInv'
      BY <2>d, <3>1, <3>2, <3>3 DEF DevInv, Clonelike, Connectors, Stages, HasLcd, HasCrtcs, Setting, Undoing
    <3>5. QED
      BY <2>d, <3>1, <3>4, Searched
  <2>5. CASE GetEncoder
    <3>1. PICK x :
            /\ pc = "encoder" /\ ~Clonelike /\ pc' = "mode" /\ UNCHANGED <<board, line, kms>>
            /\ \/ x # Off /\ dev' = [dev EXCEPT !.lcdCrtc = x]
               \/ dev' = [dev EXCEPT !.lcdCrtc = x, !.why = "freed_encoder"]
      BY <1>2, <2>5 DEF GetEncoder
    <3>2. /\ DOMAIN dev' = DevFields /\ dev'.lcd = dev.lcd /\ dev'.oid = dev.oid /\ dev'.at = dev.at
      BY <2>d, <3>1 DEF DevFields
    <3>3. dev.lcd \in Connectors
      BY <2>d, <3>1 DEF DispInv, DevInv, HasLcd
    <3>4. DevInv'
      BY <2>d, <3>1, <3>2, <3>3 DEF DevInv, Clonelike, Connectors, Stages, HasLcd, HasCrtcs, Setting, Undoing
    <3>5. QED
      BY <2>d, <3>1, <3>4, Searched
  <2>6. CASE GetLcdMode \/ GetHdmiMode \/ GetPlaneId \/ KmsCreate
    <3>1. /\ pc \in {"mode", "hdmi_mode", "plane", "kms"} /\ UNCHANGED <<board, line, kms>>
          /\ pc' \in {"kms", "hdmi_mode", "plane", "set_plane", "properties"}
          /\ (pc' \in {"hdmi_mode", "set_plane"} => Clonelike) /\ (pc' = "properties" => ~Clonelike)
          /\ pc' = "plane" => pc = "hdmi_mode"
          /\ dev' = dev \/ \E x : dev' = [dev EXCEPT !.plane = x]
      BY <1>2, <2>6 DEF GetLcdMode, GetHdmiMode, GetPlaneId, KmsCreate
    <3>2. /\ DOMAIN dev' = DevFields /\ dev'.lcd = dev.lcd /\ dev'.hdmi = dev.hdmi /\ dev'.oid = dev.oid /\ dev'.at = dev.at
          /\ dev'.hdmiCrtc = dev.hdmiCrtc
      BY <2>d, <3>1 DEF DevFields
    <3>3. pc \in HasCrtcs /\ pc \in HasLcd /\ pc' \in HasCrtcs /\ pc' \in HasLcd /\ pc' \in Stages
      BY <3>1 DEF HasCrtcs, HasLcd, Stages, Setting
    <3>4. /\ dev.lcd \in Connectors /\ (Clonelike => dev.hdmi \in Connectors /\ dev.hdmi # dev.lcd /\ dev.hdmiCrtc # Off)
          /\ pc = "hdmi_mode" => Clonelike
      BY <2>d, <3>3 DEF DispInv, DevInv
    <3>5. DevInv'
      BY <2>d, <3>1, <3>2, <3>3, <3>4 DEF DevInv, Clonelike, Connectors
    <3>6. QED
      BY <2>d, <3>1, <3>5, Searched
  <2>7. QED
    BY <2>1, <2>2, <2>3, <2>4, <2>5, <2>6 DEF Look
<1>3. QED
  BY <1>1, <1>2

-----------------------------------------------------------------------------
(* Showing the images and undoing it. *)

\* Where a step that changes the displays leads to.
Advancing == {"set_plane1", "set_plane2", "set_crtc", "set_hdmi", "shown", "restore", "remove_hdmi", "remove_lcd", "remove_planes", "end"}

\* A step that changes the kernel's displays and moves on.
LEMMA Advanced ==
  ASSUME DispInv, UNCHANGED <<board, line>>, line.app # "direct",
         dev' = dev \/ (pc = "restore" /\ dev' = [dev EXCEPT !.at = pc]),
         pc \in HasCrtcs \ {"end"}, pc' \in Advancing, pc \in Undoing => pc' \in Undoing \ {"restore"},
         pc' \in Undoing \ {"restore"} => pc \in Undoing,
         Clonelike \/ pc' # "set_hdmi", ~Clonelike \/ pc' \notin {"set_plane1", "set_plane2"},
         pc' \in Before => pc \in Before /\ kms'.route = kms.route /\ kms'.image = kms.image,
         DOMAIN kms' = KmsFields,
         DOMAIN kms'.route = Connectors, DOMAIN kms'.image = Crtcs, DOMAIN kms'.props = DOMAIN board.planes,
         DOMAIN kms'.plane = DOMAIN board.planes,
         \A c \in Connectors : kms'.route[c] \in Crtcs \cup {Off}
  PROVE  DevInv' /\ KmsInv' /\ EarlyInv'
<1>1. DevInv'
  <2>1. pc' # "direct" /\ pc' # "hdmi_encoder" /\ pc' \in HasLcd /\ pc' \in Stages /\ pc \in HasLcd
    BY DEF Advancing, HasCrtcs, HasLcd, Stages, Setting, Undoing
  <2>2. /\ board \in Boards /\ line \in Lines /\ DOMAIN dev = DevFields /\ dev.oid \in {"nothing", "first"}
        /\ dev.lcd \in Connectors /\ (Clonelike => dev.hdmi \in Connectors /\ dev.hdmi # dev.lcd /\ dev.hdmiCrtc # Off)
        /\ dev.at \in {"", "restore"} /\ (pc \notin Undoing \ {"restore"} => dev.at = "")
    BY <2>1 DEF DispInv, DevInv
  <2>3. /\ DOMAIN dev' = DevFields /\ dev'.oid = dev.oid /\ dev'.lcd = dev.lcd /\ dev'.hdmi = dev.hdmi
        /\ dev'.hdmiCrtc = dev.hdmiCrtc /\ dev'.at \in {dev.at, "restore"}
        /\ (pc' \notin Undoing \ {"restore"} => dev' = dev)
    BY <2>2 DEF DevFields, Undoing
  <2>4. (pc' \notin Undoing \ {"restore"} => dev'.at = "") /\ dev'.at \in {"", "restore"}
    <3>1. pc' \notin Undoing \ {"restore"} => pc \notin Undoing \ {"restore"}
      OBVIOUS
    <3>2. QED
      BY <2>2, <2>3, <3>1
  <2>5. Connectors' = Connectors /\ Clonelike' = Clonelike
    BY DEF Connectors, Clonelike
  <2>6. pc' \notin {"plane", "hdmi_mode", "set_plane", "properties", "open", "connector"}
    BY DEF Advancing
  <2>7. QED
    BY <2>1, <2>2, <2>3, <2>4, <2>5, <2>6 DEF DevInv
<1>2. KmsInv'
  BY DEF KmsInv, Connectors, Crtcs, CrtcAt
<1>3. EarlyInv'
  <2>1. pc' \notin Looking \cup {"properties"}
    BY DEF Advancing, Looking
  <2>2. QED
    BY <2>1 DEF DispInv, EarlyInv
<1>4. QED
  BY <1>1, <1>2, <1>3

\* What the invariant says while the images are being shown.
LEMMA WhileSetting ==
  ASSUME DispInv, pc \in HasCrtcs, pc # "end"
  PROVE  /\ line.app # "direct" /\ line \in Lines /\ board \in Boards /\ dev.lcd \in Connectors
         /\ DOMAIN kms = KmsFields /\ DOMAIN kms.route = Connectors /\ DOMAIN kms.image = Crtcs
         /\ DOMAIN kms.props = DOMAIN board.planes /\ DOMAIN kms.plane = DOMAIN board.planes
         /\ \A c \in Connectors : kms.route[c] \in Crtcs \cup {Off}
<1>1. line.app # "direct"
  BY DEF DispInv, DevInv, HasCrtcs, Setting, Undoing
<1>2. line \in Lines /\ board \in Boards /\ dev.lcd \in Connectors
  BY <1>1 DEF DispInv, DevInv, HasLcd
<1>3. QED
  BY <1>1, <1>2 DEF DispInv, KmsInv

LEMMA PropertiesStep ==
  ASSUME DispInv, SetProperties
  PROVE  DispInv'
<1>1. /\ pc = "properties" /\ pc' = "set_plane1" /\ UNCHANGED <<board, line, dev>> /\ pc \in HasCrtcs \ {"end"}
  BY DEF SetProperties, HasCrtcs, Setting
<1>2. PICK took \in [DOMAIN board.planes -> [1 .. 3 -> BOOLEAN]] :
        kms' = [kms EXCEPT !.props = [p \in DOMAIN board.planes |->
                  IF p \in {line.w[1].id, SecondId} THEN Given(kms.props[p], p, took[p]) ELSE kms.props[p]]]
  BY DEF SetProperties
<1> DEFINE new == [p \in DOMAIN board.planes |->
                     IF p \in {line.w[1].id, SecondId} THEN Given(kms.props[p], p, took[p]) ELSE kms.props[p]]
<1>3. ~Clonelike /\ line.app # "direct"
  BY <1>1, WhileSetting DEF DispInv, DevInv
<1>4. /\ DOMAIN kms' = KmsFields /\ kms'.props = new
      /\ kms'.route = kms.route /\ kms'.image = kms.image /\ kms'.plane = kms.plane
  <2>1. DOMAIN kms = KmsFields
    BY <1>1, WhileSetting
  <2>2. kms' = [kms EXCEPT !.props = new]
    BY <1>2
  <2> HIDE DEF new
  <2>3. QED
    BY <2>1, <2>2 DEF KmsFields
<1>5. DevInv' /\ KmsInv' /\ EarlyInv'
  <2>1. DOMAIN kms'.props = DOMAIN board.planes
    BY <1>4
  <2> HIDE DEF new
  <2>2. pc' \in Advancing /\ pc \in Before /\ pc \notin Undoing /\ pc' \notin Undoing
    BY <1>1 DEF Advancing, Before, Looking, Undoing
  <2>3. QED
    BY <1>1, <1>3, <1>4, <2>1, <2>2, WhileSetting, Advanced
<1>6. PlanesInv'
  <2>1. \A p \in DOMAIN board.planes : kms.props[p] = DefaultProps
    BY <1>1, <1>3 DEF DispInv, EarlyInv, Initially
  <2>2. ASSUME TwoPlanes, NEW i \in 1 .. 2, NEW j \in 1 .. 3, line.w[i].id \in DOMAIN board.planes
        PROVE  kms'.props[line.w[i].id][j] \in {DefaultProps[j]} \cup ({line.w[i].values[j]} \cap Allowed[j])
    <3>1. /\ i = 1 \/ i = 2
          /\ Len(line.w) = 2 /\ line.w[1].id # line.w[2].id
      BY <2>2 DEF TwoPlanes
    <3>2. SecondId = line.w[2].id
      BY <3>1 DEF SecondId
    <3>3. ValuesFor(line.w[i].id) = line.w[i].values
      BY <3>1 DEF ValuesFor
    <3>4. kms'.props[line.w[i].id] = Given(DefaultProps, line.w[i].id, took[line.w[i].id])
      BY <1>4, <2>1, <2>2, <3>1, <3>2
    <3>5. QED
      BY <2>2, <3>3, <3>4 DEF Given
  <2>3. ASSUME TwoPlanes, NEW p \in DOMAIN board.planes \ {line.w[1].id, line.w[2].id}
        PROVE  kms'.props[p] = DefaultProps
    <3>1. SecondId = line.w[2].id
      BY <2>3 DEF TwoPlanes, SecondId
    <3>2. QED
      BY <1>4, <2>1, <2>3, <3>1
  <2>4. TwoPlanes => PropsInv'
    BY <1>1, <2>2, <2>3 DEF PropsInv, Allowed, DefaultProps
  <2>5. QED
    BY <1>1, <1>3, <2>4 DEF PlanesInv, TwoPlanes, Clonelike
<1>7. QED
  BY <1>1, <1>5, <1>6 DEF DispInv, LcdInv, HdmiInv, LeftInv, Undoing

LEMMA PlaneStep ==
  ASSUME DispInv, SetPlane, UNCHANGED <<board, line, dev>>,
         Advance([kms EXCEPT !.plane[PlaneUsed] = [crtc |-> dev.lcdCrtc, fb |-> Steps.fb]], Steps.next),
         PlaneUsed \in DOMAIN board.planes
  PROVE  DispInv'
<1>1. pc \in {"set_plane", "set_plane1", "set_plane2"} /\ pc \in HasCrtcs /\ pc # "end" /\ pc \in Before /\ pc \notin Undoing
  BY DEF SetPlane, HasCrtcs, Setting, Before, Undoing
<1>2. /\ Steps.fb \in {"plane1", "plane2"}
      /\ pc = "set_plane" => PlaneUsed = dev.plane /\ Steps.fb = "plane1" /\ Steps.next = "set_crtc"
      /\ pc = "set_plane1" => PlaneUsed = line.w[1].id /\ Steps.next = "set_plane2"
      /\ pc = "set_plane2" => PlaneUsed = SecondId /\ Steps.next = "set_crtc"
  BY <1>1 DEF Steps, SetPlaneStep, SetPlane1Step, SetPlane2Step, Step, PlaneUsed
<1>3. pc' = Steps.next /\ kms' = [kms EXCEPT !.plane[PlaneUsed] = [crtc |-> dev.lcdCrtc, fb |-> Steps.fb]]
  BY DEF Advance
<1>4. /\ (pc = "set_plane" => Clonelike) /\ (pc # "set_plane" => ~Clonelike)
  BY <1>1, WhileSetting DEF DispInv, DevInv
<1> DEFINE p0 == PlaneUsed
           fb0 == Steps.fb
<1>5. /\ DOMAIN kms' = KmsFields /\ kms'.props = kms.props
      /\ kms'.route = kms.route /\ kms'.image = kms.image /\ DOMAIN kms'.plane = DOMAIN kms.plane
      /\ kms'.plane[p0] = [crtc |-> dev.lcdCrtc, fb |-> fb0]
      /\ \A p \in DOMAIN kms.plane : p # p0 => kms'.plane[p] = kms.plane[p]
  <2>1. DOMAIN kms = KmsFields /\ p0 \in DOMAIN kms.plane
    BY <1>1, WhileSetting
  <2>2. kms' = [kms EXCEPT !.plane = [@ EXCEPT ![p0] = [crtc |-> dev.lcdCrtc, fb |-> fb0]]]
    BY <1>3
  <2> HIDE DEF p0, fb0
  <2>3. QED
    BY <2>1, <2>2 DEF KmsFields
<1>6. pc' \in {"set_crtc", "set_plane2"} /\ (pc' = "set_plane2" => pc = "set_plane1")
  BY <1>1, <1>2, <1>3
<1>7. DevInv' /\ KmsInv' /\ EarlyInv'
  <2>1. pc' \in Advancing /\ pc' \notin Undoing
    BY <1>6 DEF Advancing, Undoing
  <2>2. ~Clonelike \/ pc' \notin {"set_plane1", "set_plane2"}
    BY <1>4, <1>6
  <2> HIDE DEF p0, fb0
  <2>3. QED
    BY <1>1, <1>5, <1>6, <2>1, <2>2, WhileSetting, Advanced
<1>8. PlanesInv'
  <2>1. ASSUME Clonelike PROVE kms'.plane[dev.plane] = [crtc |-> dev.lcdCrtc, fb |-> "plane1"]
    BY <1>1, <1>2, <1>4, <1>5, <2>1
  <2>2. ASSUME TwoPlanes PROVE PropsInv'
    <3>1. pc \in {"set_plane1", "set_plane2"}
      BY <1>1, <1>4, <2>2 DEF TwoPlanes, Clonelike
    <3>2. PropsInv
      BY <2>2, <3>1 DEF DispInv, PlanesInv
    <3>3. QED
      BY <1>5, <3>2 DEF PropsInv, Allowed, DefaultProps
  <2>3. ASSUME TwoPlanes
        PROVE  /\ PlaneOn(line.w[1].id)'
               /\ pc' = "set_crtc" => PlaneOn(line.w[2].id)'
    <3>1. pc \in {"set_plane1", "set_plane2"} /\ line.w[1].id # line.w[2].id /\ SecondId = line.w[2].id
      BY <1>1, <1>4, <2>3 DEF TwoPlanes, Clonelike, SecondId
    <3>2. p0 \in DOMAIN board'.planes /\ kms'.plane[p0].crtc = dev'.lcdCrtc
      BY <1>5
    <3>3. CASE pc = "set_plane1"
      <4>1. p0 = line.w[1].id /\ pc' = "set_plane2" /\ line' = line
        BY <1>2, <1>3, <3>3
      <4> HIDE DEF p0
      <4>2. QED
        BY <3>2, <4>1 DEF PlaneOn
    <3>4. CASE pc = "set_plane2"
      <4>1. p0 = line.w[2].id /\ PlaneOn(line.w[1].id) /\ line' = line
        BY <1>2, <2>3, <3>1, <3>4 DEF DispInv, PlanesInv
      <4>2. line.w[1].id \in DOMAIN kms.plane
        BY <1>1, <4>1, WhileSetting DEF PlaneOn
      <4> HIDE DEF p0
      <4>3. kms'.plane[line.w[1].id] = kms.plane[line.w[1].id]
        BY <1>5, <3>1, <4>1, <4>2
      <4>4. QED
        BY <3>2, <4>1, <4>3 DEF PlaneOn
    <3>5. QED
      BY <3>1, <3>3, <3>4
  <2>4. TwoPlanes' = TwoPlanes /\ Clonelike' = Clonelike /\ pc' # "shown"
    BY <1>6 DEF TwoPlanes, Clonelike
  <2>5. Clonelike /\ pc' \in {"set_crtc", "set_hdmi", "shown"} =>
          kms'.plane[dev'.plane] = [crtc |-> dev'.lcdCrtc, fb |-> "plane1"]
    BY <2>1
  <2>6. QED
    BY <2>2, <2>3, <2>4, <2>5 DEF PlanesInv
<1>9. QED
  BY <1>6, <1>7, <1>8 DEF DispInv, LcdInv, HdmiInv, LeftInv, Undoing

\* A connector given to a CRTC.
LEMMA CrtcGiven ==
  ASSUME DispInv, NEW x \in Crtcs, NEW fb, NEW c \in Connectors, kms' = SetCrtc(kms, x, fb, c), UNCHANGED <<board, line, dev>>,
         \/ pc = "set_crtc" /\ pc' \in {"set_hdmi", "shown"}
         \/ pc = "set_hdmi" /\ pc' = "shown"
         \/ pc = "restore" /\ pc' = "remove_hdmi",
         pc' = "set_hdmi" => Clonelike
  PROVE  /\ DevInv' /\ KmsInv' /\ EarlyInv' /\ kms'.plane = kms.plane /\ kms'.props = kms.props
         /\ kms'.route[c] = x /\ kms'.image[x] = fb
         /\ \A d \in Connectors \ {c} : kms'.route[d] = IF kms.route[d] = x THEN Off ELSE kms.route[d]
         /\ \A d \in Connectors, y \in Crtcs :
              d # c /\ kms.route[d] = y /\ y # x => kms'.image[y] = kms.image[y]
<1>1. pc \in HasCrtcs \ {"end"} /\ pc' \in Advancing /\ pc' \notin Before
      /\ (pc \in Undoing <=> pc = "restore") /\ (pc' \in Undoing \ {"restore"} <=> pc = "restore")
  BY DEF HasCrtcs, Setting, Undoing, Advancing, Before, Looking
<1>2. /\ DOMAIN kms = KmsFields /\ line.app # "direct"
      /\ DOMAIN kms.props = DOMAIN board.planes /\ DOMAIN kms.plane = DOMAIN board.planes
      /\ \A d \in Connectors : kms.route[d] \in Crtcs \cup {Off}
  BY <1>1, WhileSetting
<1>3. /\ DOMAIN kms' = KmsFields /\ kms'.plane = kms.plane /\ kms'.props = kms.props
      /\ DOMAIN kms'.route = Connectors /\ DOMAIN kms'.image = Crtcs
      /\ kms'.route[c] = x /\ kms'.image[x] = fb
      /\ \A d \in Connectors \ {c} : kms'.route[d] = IF kms.route[d] = x THEN Off ELSE kms.route[d]
      /\ \A d \in Connectors, y \in Crtcs :
           d # c /\ kms.route[d] = y /\ y # x => kms'.image[y] = kms.image[y]
  BY <1>2, SetCrtcFacts
<1>4. \A d \in Connectors : kms'.route[d] \in Crtcs \cup {Off}
  BY <1>2, <1>3
<1>5. (Clonelike \/ pc' # "set_hdmi") /\ (~Clonelike \/ pc' \notin {"set_plane1", "set_plane2"})
  OBVIOUS
<1>6. DevInv' /\ KmsInv' /\ EarlyInv'
  BY <1>1, <1>2, <1>3, <1>4, <1>5, Advanced
<1>7. QED
  BY <1>3, <1>6

\* The planes stay as they are while the CRTCs are set.
LEMMA PlanesKept ==
  ASSUME DispInv, UNCHANGED <<board, line, dev>>, kms'.plane = kms.plane, kms'.props = kms.props,
         \/ pc = "set_crtc" /\ pc' \in {"set_hdmi", "shown"}
         \/ pc = "set_hdmi" /\ pc' = "shown" /\ Clonelike
  PROVE  PlanesInv'
<1>1. TwoPlanes' = TwoPlanes /\ Clonelike' = Clonelike /\ (TwoPlanes => ~Clonelike)
  BY DEF TwoPlanes, Clonelike
<1>2. \A p : PlaneOn(p) => PlaneOn(p)'
  BY DEF PlaneOn
<1>3. PropsInv => PropsInv'
  BY DEF PropsInv, Allowed, DefaultProps
<1>4. QED
  BY <1>1, <1>2, <1>3 DEF DispInv, PlanesInv

LEMMA LcdCrtcStep ==
  ASSUME DispInv, pc = "set_crtc", CanSetCrtc(dev.lcdCrtc, "lcd", dev.lcd),
         Advance(SetCrtc(kms, dev.lcdCrtc, "lcd", dev.lcd), Steps.next)
  PROVE  DispInv'
<1>1. /\ UNCHANGED <<board, line, dev>> /\ pc' = (IF Clonelike THEN "set_hdmi" ELSE "shown")
      /\ kms' = SetCrtc(kms, dev.lcdCrtc, "lcd", dev.lcd)
  BY DEF Advance, Steps, SetCrtcStep, Step
<1>2. dev.lcd \in Connectors /\ dev.lcdCrtc \in Crtcs
  BY WhileSetting DEF HasCrtcs, Setting, CanSetCrtc
<1>3. /\ DevInv' /\ KmsInv' /\ EarlyInv' /\ kms'.plane = kms.plane /\ kms'.props = kms.props
      /\ kms'.route[dev.lcd] = dev.lcdCrtc /\ kms'.image[dev.lcdCrtc] = "lcd"
  BY <1>1, <1>2, CrtcGiven
<1>4. LcdShows("lcd")'
  BY <1>1, <1>3 DEF CanSetCrtc, LcdShows, Crtcs, CrtcAt, Encoder
<1>5. PlanesInv'
  BY <1>1, <1>3, PlanesKept
<1>6. Clonelike' = Clonelike /\ (Apart' <=> Apart) /\ (~Clonelike => Apart)
  BY <1>1 DEF Clonelike, Apart
<1>7. QED
  BY <1>1, <1>3, <1>4, <1>5, <1>6 DEF DispInv, LcdInv, HdmiInv, LeftInv, Undoing

LEMMA HdmiCrtcStep ==
  ASSUME DispInv, pc = "set_hdmi", NEW fb, fb = IF line.app = "clone" THEN "lcd" ELSE "hdmi",
         CanSetCrtc(dev.hdmiCrtc, fb, dev.hdmi), Advance(SetCrtc(kms, dev.hdmiCrtc, fb, dev.hdmi), "shown")
  PROVE  DispInv'
<1>1. UNCHANGED <<board, line, dev>> /\ pc' = "shown" /\ kms' = SetCrtc(kms, dev.hdmiCrtc, fb, dev.hdmi)
  BY DEF Advance
<1>2. line.app # "direct" /\ pc \in HasLcd /\ dev.lcd \in Connectors /\ dev.hdmiCrtc \in Crtcs
  BY WhileSetting DEF HasCrtcs, HasLcd, Setting, CanSetCrtc
<1>3. Clonelike /\ dev.hdmi \in Connectors /\ dev.hdmi # dev.lcd /\ LcdShows("lcd")
  BY <1>2 DEF DispInv, DevInv, LcdInv
<1>4. /\ DevInv' /\ KmsInv' /\ EarlyInv' /\ kms'.plane = kms.plane /\ kms'.props = kms.props
      /\ kms'.route[dev.hdmi] = dev.hdmiCrtc /\ kms'.image[dev.hdmiCrtc] = fb
      /\ \A d \in Connectors \ {dev.hdmi} :
           kms'.route[d] = IF kms.route[d] = dev.hdmiCrtc THEN Off ELSE kms.route[d]
      /\ \A d \in Connectors, y \in Crtcs :
           d # dev.hdmi /\ kms.route[d] = y /\ y # dev.hdmiCrtc => kms'.image[y] = kms.image[y]
  BY <1>1, <1>2, <1>3, CrtcGiven
<1>5. HdmiInv'
  BY <1>1, <1>4 DEF HdmiInv
<1>6. kms.route[dev.lcd] = dev.lcdCrtc /\ dev.lcdCrtc \in Crtcs /\ kms.image[dev.lcdCrtc] = "lcd"
  BY <1>3 DEF LcdShows
<1>7. Apart' = Apart /\ (Apart <=> dev.lcdCrtc # dev.hdmiCrtc)
  BY <1>1, <1>3 DEF Apart, Clonelike
<1>8. Apart => LcdShows("lcd")'
  <2>1. SUFFICES ASSUME dev.lcdCrtc # dev.hdmiCrtc PROVE LcdShows("lcd")'
    BY <1>7
  <2>2. kms'.route[dev.lcd] = dev.lcdCrtc /\ kms'.image[dev.lcdCrtc] = "lcd"
    BY <1>2, <1>3, <1>4, <1>6, <2>1
  <2>3. QED
    BY <1>1, <1>3, <2>2 DEF LcdShows, Crtcs, CrtcAt, Encoder
<1>9. ~Apart => LcdOff'
  BY <1>1, <1>2, <1>3, <1>4, <1>6, <1>7 DEF LcdOff
<1>10. PlanesInv'
  BY <1>1, <1>3, <1>4, PlanesKept
<1>11. QED
  BY <1>1, <1>4, <1>5, <1>7, <1>8, <1>9, <1>10 DEF DispInv, LcdInv, LeftInv, Undoing

\* Steps that leave everything but the buffer as it is.
LEMMA Unmoved ==
  ASSUME DispInv, UNCHANGED <<pc, board, line, dev, kms>>
  PROVE  DispInv'
<1>1. DevInv' /\ KmsInv' /\ EarlyInv'
  BY DEF DispInv, DevInv, KmsInv, EarlyInv, Connectors, Crtcs, CrtcAt, Clonelike
<1>2. LcdInv' /\ HdmiInv'
  BY DEF DispInv, LcdInv, HdmiInv, LcdShows, LcdOff, Apart, Clonelike, Crtcs, CrtcAt, Encoder
<1>3. PlanesInv' /\ LeftInv'
  BY DEF DispInv, PlanesInv, PropsInv, PlaneOn, TwoPlanes, Clonelike, Allowed, DefaultProps, LeftInv, Shown,
         Connectors, Crtcs, CrtcAt, Framebuffers
<1>4. QED
  BY <1>1, <1>2, <1>3 DEF DispInv

LEMMA ShowStep ==
  ASSUME DispInv, Show
  PROVE  DispInv'
<1>1. CASE pc' = "exit" /\ pc \in Drawing \cup {"set_hdmi"} /\ UNCHANGED <<board, line>>
           /\ kms' = RmFB(kms, Framebuffers) /\ \E why : dev' = [dev EXCEPT !.at = pc, !.why = why]
  <2>1. pc \in Before \cup {"set_hdmi"}
    BY <1>1 DEF Drawing, Before
  <2>2. QED
    BY <1>1, <2>1, GivenUp
<1>2. CASE UNCHANGED <<pc, board, line, dev, kms>>
  BY <1>2, Unmoved
<1>3. CASE SetProperties
  BY <1>3, PropertiesStep
<1>4. CASE Create \/ Creating
  BY <1>2, <1>4 DEF Create, Creating
<1>5. CASE CreateFailed
  BY <1>1, <1>5 DEF CreateFailed
<1>6. CASE SetPlane
  <2>1. pc \in {"set_plane", "set_plane1", "set_plane2"} /\ pc \in Drawing
    BY <1>6 DEF SetPlane, Drawing
  <2>2. CASE \E why : Refused(why)
    BY <1>1, <2>1, <2>2 DEF Refused
  <2>3. CASE ~(\E why : Refused(why))
    <3>1. /\ CanSetPlane(PlaneUsed, dev.lcdCrtc)
          /\ Advance([kms EXCEPT !.plane[PlaneUsed] = [crtc |-> dev.lcdCrtc, fb |-> Steps.fb]], Steps.next)
      BY <1>6, <2>3 DEF SetPlane
    <3>2. PlaneUsed \in DOMAIN board.planes /\ UNCHANGED <<board, line, dev>>
      BY <3>1 DEF CanSetPlane, Advance
    <3>3. QED
      BY <1>6, <3>1, <3>2, PlaneStep
  <2>4. QED
    BY <2>2, <2>3
<1>7. CASE SetLcdCrtc
  <2>1. pc = "set_crtc" /\ pc \in Drawing
    BY <1>7 DEF SetLcdCrtc, Drawing
  <2>2. CASE \E why : Refused(why)
    BY <1>1, <2>1, <2>2 DEF Refused
  <2>3. CASE ~(\E why : Refused(why))
    BY <1>7, <2>1, <2>3, LcdCrtcStep DEF SetLcdCrtc
  <2>4. QED
    BY <2>2, <2>3
<1>8. CASE SetCloneMode \/ SetExtendedMode
  <2>1. pc = "set_hdmi"
    BY <1>8 DEF SetCloneMode, SetExtendedMode
  <2>2. CASE \E why : Refused(why)
    BY <1>1, <2>1, <2>2 DEF Refused
  <2>3. CASE ~(\E why : Refused(why))
    <3>1. PICK fb : /\ fb = IF line.app = "clone" THEN "lcd" ELSE "hdmi"
                    /\ CanSetCrtc(dev.hdmiCrtc, fb, dev.hdmi)
                    /\ Advance(SetCrtc(kms, dev.hdmiCrtc, fb, dev.hdmi), "shown")
      BY <1>8, <2>3 DEF SetCloneMode, SetExtendedMode, ExtendedImage
    <3>2. QED
      BY <2>1, <3>1, HdmiCrtcStep
  <2>4. QED
    BY <2>2, <2>3
<1>9. QED
  BY <1>3, <1>4, <1>5, <1>6, <1>7, <1>8 DEF Show

LEMMA RestoreStep ==
  ASSUME DispInv, Restore
  PROVE  DispInv'
<1>1. pc = "restore" /\ pc' = "remove_hdmi" /\ UNCHANGED <<board, line>>
  BY UndoSteps DEF Restore, Advance, Goto
<1>2. /\ pc \in HasCrtcs \ {"end"} /\ pc' \in Advancing /\ pc' \notin Before
      /\ pc \in Undoing /\ pc' \in Undoing \ {"restore"} /\ pc' # "end"
  BY <1>1 DEF HasCrtcs, Setting, Undoing, Advancing, Before, Looking
<1>3. line.app # "direct" /\ dev.lcd \in Connectors /\ dev.at = "" /\ DOMAIN dev = DevFields
  <2>1. line.app # "direct" /\ dev.lcd \in Connectors
    BY <1>2, WhileSetting
  <2>2. pc \in HasLcd \ (Undoing \ {"restore"})
    BY <1>1 DEF HasLcd, HasCrtcs, Undoing
  <2>3. QED
    BY <2>1, <2>2 DEF DispInv, DevInv
<1>4. CASE CanSetCrtc(dev.lcdCrtc, dev.oid, dev.lcd) /\ Advance(SetCrtc(kms, dev.lcdCrtc, dev.oid, dev.lcd), UndoNext)
  <2>1. kms' = SetCrtc(kms, dev.lcdCrtc, dev.oid, dev.lcd) /\ dev' = dev /\ dev.lcdCrtc \in Crtcs /\ dev.oid # "nothing"
    BY <1>4 DEF Advance, CanSetCrtc
  <2>2. /\ DevInv' /\ KmsInv' /\ EarlyInv'
        /\ kms'.route[dev.lcd] = dev.lcdCrtc /\ kms'.image[dev.lcdCrtc] = dev.oid
    <3>1. dev.lcdCrtc \in Crtcs /\ dev.lcd \in Connectors /\ UNCHANGED <<board, line, dev>>
      BY <1>1, <1>3, <2>1
    <3>2. kms' = SetCrtc(kms, dev.lcdCrtc, dev.oid, dev.lcd)
      BY <2>1
    <3>3. pc = "restore" /\ pc' = "remove_hdmi"
      BY <1>1
    <3>4. QED
      BY <3>1, <3>2, <3>3, CrtcGiven
  <2>3. LcdShows(dev.oid)'
    BY <1>1, <1>4, <2>1, <2>2 DEF CanSetCrtc, LcdShows, Crtcs, CrtcAt, Encoder
  <2>4. QED
    BY <1>1, <1>3, <2>1, <2>2, <2>3 DEF DispInv, LcdInv, HdmiInv, PlanesInv, LeftInv
<1>5. CASE Goto(UndoNext, [dev EXCEPT !.at = pc])
  <2>1. kms' = kms /\ dev' = [dev EXCEPT !.at = pc]
    BY <1>5 DEF Goto
  <2>2. dev'.at = "restore" /\ dev'.lcd = dev.lcd /\ dev'.lcdCrtc = dev.lcdCrtc
    BY <1>1, <1>3, <2>1 DEF DevFields
  <2>3. DevInv' /\ KmsInv' /\ EarlyInv'
    BY <1>1, <1>2, <1>3, <2>1, WhileSetting, Advanced
  <2>4. LcdOff' \/ LcdShows("lcd")'
    <3>1. LcdOff \/ LcdShows("lcd")
      BY <1>1, <1>3 DEF DispInv, LcdInv
    <3>2. QED
      BY <1>1, <2>1, <2>2, <3>1 DEF LcdShows, LcdOff, Crtcs, CrtcAt, Encoder
  <2>5. QED
    BY <1>1, <1>2, <2>2, <2>3, <2>4 DEF DispInv, LcdInv, HdmiInv, PlanesInv, LeftInv
<1>6. QED
  BY <1>4, <1>5 DEF Restore

LEMMA RemoveStep ==
  ASSUME DispInv, Remove
  PROVE  DispInv'
<1>1. /\ pc \in {"remove_hdmi", "remove_lcd", "remove_planes"} /\ UNCHANGED <<board, line, dev>>
      /\ pc' \in {"remove_lcd", "remove_planes", "end"} /\ UndoNext = pc'
  BY UndoSteps DEF Remove, Advance
<1>2. PICK fbs : kms' = RmFB(kms, fbs) /\ fbs \subseteq Framebuffers /\ (pc' = "end" => fbs = Framebuffers)
  <2>1. PICK gone \in {{}, CASE pc = "remove_lcd" -> {"lcd"} [] pc = "remove_hdmi" -> {"hdmi"}
                            [] pc = "remove_planes" -> {"plane1", "plane2"}} :
          kms' = RmFB(kms, IF UndoNext = "end" THEN Framebuffers ELSE gone)
    BY DEF Remove, Advance
  <2>2. gone \subseteq Framebuffers
    BY <1>1, <2>1 DEF Framebuffers
  <2>3. CASE pc' = "end"
    BY <1>1, <2>1, <2>3
  <2>4. CASE pc' # "end"
    BY <1>1, <2>1, <2>2, <2>4
  <2>5. QED
    BY <2>3, <2>4
<1>3. /\ pc \in HasCrtcs \ {"end"} /\ pc' \in Advancing /\ pc' \notin Before
      /\ pc \in Undoing \ {"restore"} /\ pc' \in Undoing \ {"restore"}
  BY <1>1 DEF HasCrtcs, Undoing, Advancing, Before, Looking
<1>4. /\ line.app # "direct" /\ board \in Boards /\ dev.lcd \in Connectors
      /\ DOMAIN kms = KmsFields
      /\ DOMAIN kms.props = DOMAIN board.planes /\ DOMAIN kms.plane = DOMAIN board.planes
      /\ \A c \in Connectors : kms.route[c] \in Crtcs \cup {Off}
  BY <1>3, WhileSetting
<1>5. /\ DOMAIN kms' = KmsFields /\ kms'.props = kms.props
      /\ DOMAIN kms'.route = Connectors /\ DOMAIN kms'.image = Crtcs /\ DOMAIN kms'.plane = DOMAIN kms.plane
      /\ \A x \in Crtcs : kms'.image[x] = IF kms.image[x] \in fbs THEN "nothing" ELSE kms.image[x]
      /\ \A c \in Connectors :
           kms'.route[c] = IF kms.route[c] # Off /\ kms.image[kms.route[c]] \in fbs THEN Off ELSE kms.route[c]
  BY <1>2, <1>4, RmFBFacts
<1>6. DevInv' /\ KmsInv' /\ EarlyInv'
  <2>1. \A c \in Connectors : kms'.route[c] \in Crtcs \cup {Off}
    BY <1>4, <1>5
  <2>2. QED
    BY <1>1, <1>3, <1>4, <1>5, <2>1, Advanced
<1>7. LcdInv'
  <2>1. Off \notin Crtcs
    BY <1>4, BoardFacts
  <2>2. ASSUME NEW image, LcdShows(image), image \notin fbs PROVE LcdShows(image)'
    <3>1. kms'.image[dev.lcdCrtc] = image /\ kms'.route[dev.lcd] = dev.lcdCrtc
      BY <1>4, <1>5, <2>2 DEF LcdShows
    <3>2. QED
      BY <1>1, <2>2, <3>1 DEF LcdShows, Crtcs, CrtcAt, Encoder
  <2>3. LcdShows("lcd") /\ "lcd" \in fbs => LcdOff'
    BY <1>1, <1>4, <1>5, <2>1 DEF LcdShows, LcdOff
  <2>4. LcdOff => LcdOff'
    BY <1>1, <1>4, <1>5 DEF LcdOff
  <2>5. dev.oid \notin fbs
    BY <1>2 DEF DispInv, DevInv, Framebuffers
  <2>6. pc' = "end" => "lcd" \in fbs
    BY <1>2 DEF Framebuffers
  <2>7. CASE dev.at = ""
    <3>1. LcdShows(dev.oid) /\ dev.oid # "nothing"
      BY <1>3, <1>4, <2>7 DEF DispInv, LcdInv
    <3>2. kms'.image[dev.lcdCrtc] = dev.oid /\ kms'.route[dev.lcd] = dev.lcdCrtc
      BY <1>4, <1>5, <2>1, <2>5, <3>1 DEF LcdShows
    <3>3. LcdShows(dev.oid)'
      BY <1>1, <3>1, <3>2 DEF LcdShows, Crtcs, CrtcAt, Encoder
    <3>4. QED
      BY <1>1, <2>7, <3>1, <3>3 DEF LcdInv
  <2>8. CASE dev.at # ""
    <3>1. LcdOff \/ LcdShows("lcd")
      BY <1>3, <1>4, <2>8 DEF DispInv, LcdInv
    <3>2. LcdOff' \/ (LcdShows("lcd")' /\ pc' # "end")
      BY <2>2, <2>3, <2>4, <2>6, <3>1
    <3>3. QED
      BY <1>1, <2>8, <3>2 DEF LcdInv
  <2>9. QED
    BY <2>7, <2>8
<1>8. LeftInv'
  <2>1. ASSUME pc' = "end"
        PROVE  /\ \A x \in Crtcs : kms'.image[x] \notin Framebuffers
               /\ \A p \in DOMAIN kms'.plane : kms'.plane[p].fb \notin Framebuffers
    BY <1>1, <1>2, <1>4, <2>1, Removed
  <2>2. Crtcs' = Crtcs
    BY <1>1 DEF Crtcs, CrtcAt
  <2>3. QED
    BY <1>1, <2>1, <2>2 DEF LeftInv
<1>9. QED
  BY <1>1, <1>6, <1>7, <1>8 DEF DispInv, HdmiInv, PlanesInv

LEMMA UndoStep ==
  ASSUME DispInv, Undo
  PROVE  DispInv'
<1>1. CASE Key
  <2>1. pc = "shown" /\ pc' = "restore" /\ UNCHANGED <<board, line, dev, kms>>
    BY <1>1, UndoSteps DEF Key, Goto
  <2>2. pc \in HasCrtcs \ {"end"} /\ pc' \in Advancing /\ pc' \notin Before /\ pc \notin Undoing
        /\ pc' \notin Undoing \ {"restore"}
    BY <2>1 DEF HasCrtcs, Setting, Undoing, Advancing, Before, Looking
  <2>3. DevInv' /\ KmsInv' /\ EarlyInv'
    BY <2>1, <2>2, WhileSetting, Advanced
  <2>4. LcdInv'
    BY <2>1 DEF DispInv, LcdInv, LcdShows, LcdOff, Apart, Clonelike, Crtcs, CrtcAt, Encoder, Undoing
  <2>5. QED
    BY <2>1, <2>3, <2>4 DEF DispInv, HdmiInv, PlanesInv, LeftInv
<1>2. CASE Restore
  BY <1>2, RestoreStep
<1>3. CASE Remove
  BY <1>3, RemoveStep
<1>4. CASE DirectDone
  <2>1. pc = "direct" /\ pc' = "end" /\ UNCHANGED <<board, line, dev, kms>> /\ line.app = "direct"
    BY <1>4 DEF DirectDone, DispInv, DevInv
  <2>2. DevInv'
    <3>1. dev.at = ""
      BY <2>1 DEF DispInv, DevInv
    <3>2. QED
      BY <2>1, <3>1 DEF DispInv, DevInv, Stages, HasLcd, HasCrtcs, Undoing
  <2>3. KmsInv' /\ EarlyInv'
    BY <2>1 DEF DispInv, KmsInv, EarlyInv
  <2>4. ~TwoPlanes' /\ ~Clonelike'
    BY <2>1 DEF TwoPlanes, Clonelike
  <2>5. QED
    BY <2>1, <2>2, <2>3, <2>4 DEF DispInv, LcdInv, HdmiInv, PlanesInv, LeftInv
<1>5. QED
  BY <1>1, <1>2, <1>3, <1>4 DEF Undo

-----------------------------------------------------------------------------
(* The displays. *)

\* The invariant, whatever the board, the command line and the outcome of the
\* kernel's calls.
LEMMA DispAlways == Spec => []DispInv
<1>1. Init => DispInv
  BY DispInit
<1>2. DispInv /\ [Next]_vars => DispInv'
  <2>1. SUFFICES ASSUME DispInv, [Next]_vars PROVE DispInv'
    OBVIOUS
  <2>2. CASE Next
    BY <2>1, <2>2, LookStep, ShowStep, UndoStep DEF Next
  <2>3. CASE UNCHANGED vars
    BY <2>1, <2>3, Unmoved DEF vars
  <2>4. QED
    BY <2>1, <2>2, <2>3
<1>3. QED
  BY <1>1, <1>2, PTL DEF Spec

\* The LCD's picture is on the LCD when the invariant says so.
LEMMA ShownOnLcd ==
  ASSUME DispInv, line.app # "direct"
  PROVE  /\ \A image : LcdShows(image) => Shown(kms, dev.lcd) = image
         /\ LcdOff => Shown(kms, dev.lcd) = "nothing"
<1>1. Off \notin Crtcs
  BY BoardFacts DEF DispInv, DevInv
<1>2. QED
  BY <1>1 DEF LcdShows, LcdOff, Shown

\* While the images are shown, whatever the three programs promise holds, or
\* the LCD is dark because both displays were given one CRTC: which picture is
\* on which display, the overlays on the LCD's CRTC, and the planes' properties
\* as asked for or, where the call failed unnoticed, as they were (set_plane,
\* set_crtc, set_clone_mode, set_extended_mode, set_z_order, set_global_alpha,
\* set_pre_multiplied_alpha).
THEOREM DrmDisplaysAsPromised == Spec => []DisplaysAsPromised
<1>1. DispInv => DisplaysAsPromised
  <2>1. SUFFICES ASSUME DispInv, pc = "shown"
                 PROVE  DisplaysAsPromised
    BY DEF DisplaysAsPromised
  <2>2. pc \in HasCrtcs /\ line.app # "direct"
    BY <2>1, WhileSetting DEF HasCrtcs
  <2>3. /\ IF Apart THEN LcdShows("lcd") ELSE LcdOff
        /\ Shown(kms, dev.lcd) = IF Apart THEN "lcd" ELSE "nothing"
    BY <2>1, <2>2, ShownOnLcd DEF DispInv, LcdInv
  <2>4. ASSUME Clonelike
        PROVE  /\ Shown(kms, dev.hdmi) = IF line.app = "clone" THEN "lcd" ELSE "hdmi"
               /\ kms.plane[dev.plane] = [crtc |-> dev.lcdCrtc, fb |-> "plane1"]
    <3>1. dev.hdmiCrtc # Off
      BY <2>1, <2>2, <2>4 DEF DispInv, DevInv
    <3>2. QED
      BY <2>1, <2>4, <3>1 DEF DispInv, HdmiInv, PlanesInv, Shown
  <2>5. ASSUME TwoPlanes
        PROVE  /\ PropsInv
               /\ \A i \in 1 .. 2 : PlaneOn(line.w[i].id) /\ kms.plane[line.w[i].id].crtc = kms.route[dev.lcd]
    <3>1. PlaneOn(line.w[1].id) /\ PlaneOn(line.w[2].id) /\ PropsInv
      BY <2>1, <2>5 DEF DispInv, PlanesInv
    <3>2. kms.route[dev.lcd] = dev.lcdCrtc
      BY <2>3, <2>5 DEF LcdShows, Apart, Clonelike, TwoPlanes
    <3>3. \A i \in 1 .. 2 : i = 1 \/ i = 2
      OBVIOUS
    <3>4. QED
      BY <3>1, <3>2, <3>3 DEF PlaneOn
  <2>6. ASSUME TwoPlanes
        PROVE  /\ \A i \in 1 .. 2 :
                    /\ kms.plane[line.w[i].id].crtc = kms.route[dev.lcd]
                    /\ \A j \in 1 .. 3 :
                         kms.props[line.w[i].id][j] \in {DefaultProps[j]} \cup ({line.w[i].values[j]} \cap Allowed[j])
               /\ \A p \in DOMAIN board.planes \ {line.w[1].id, line.w[2].id} : kms.props[p] = DefaultProps
    BY <2>5, <2>6 DEF PropsInv, PlaneOn
  <2>7. line.app \in {"clone", "extended"} => Clonelike
    BY DEF Clonelike
  <2>8. line.app = "extended" => line.app # "clone"
    OBVIOUS
  <2>9. line.app = "zalpha" /\ Len(line.w) = 2 /\ line.w[1].id # line.w[2].id => TwoPlanes
    BY DEF TwoPlanes
  <2>10. QED
    BY <2>3, <2>4, <2>6, <2>7, <2>8, <2>9 DEF DisplaysAsPromised
<1>2. QED
  BY <1>1, DispAlways, PTL

\* However the programs end, and whichever call fails: the LCD gets the first
\* CRTC's old picture back with no dark moment, or is dark because the call that
\* should give it back failed; a program that gives up leaves the displays as they
\* were, or the LCD dark after its first mode set; and no framebuffer of the
\* program stays on a display or a plane (main's clean-up after the key, and every exit(0)).
THEOREM DrmLcdRestored == Spec => []LcdRestored
<1>1. DispInv => LcdRestored
  <2>1. SUFFICES ASSUME DispInv PROVE LcdRestored
    OBVIOUS
  <2>2. {UndoOrder[i] : i \in 1 .. 5} \cup {"shown"} = Undoing \cup {"shown"}
    <3>1. \A i \in 1 .. 5 : i = 1 \/ i = 2 \/ i = 3 \/ i = 4 \/ i = 5
      OBVIOUS
    <3>2. /\ UndoOrder[1] = "restore" /\ UndoOrder[2] = "remove_hdmi" /\ UndoOrder[3] = "remove_lcd"
          /\ UndoOrder[4] = "remove_planes" /\ UndoOrder[5] = "end"
      BY DEF UndoOrder
    <3>3. \A x : x \in {UndoOrder[i] : i \in 1 .. 5} <=> x \in Undoing
      BY <3>1, <3>2, 1 \in 1 .. 5, 2 \in 1 .. 5, 3 \in 1 .. 5, 4 \in 1 .. 5, 5 \in 1 .. 5 DEF Undoing
    <3>4. QED
      BY <3>3
  <2>3. ASSUME pc \in Undoing \cup {"shown"}, line.app # "direct", dev.at = "", Apart
        PROVE  Shown(kms, dev.lcd) # "nothing"
    <3>1. LcdShows("lcd") \/ (LcdShows(dev.oid) /\ dev.oid # "nothing")
      BY <2>1, <2>3 DEF DispInv, LcdInv, Undoing
    <3>2. QED
      BY <2>1, <2>3, <3>1, ShownOnLcd
  <2>4. ASSUME pc = "end", line.app # "direct"
        PROVE  Shown(kms, dev.lcd) = IF dev.at = "" THEN dev.oid ELSE "nothing"
    <3>1. IF dev.at = "" THEN LcdShows(dev.oid) ELSE LcdOff
      BY <2>1, <2>4 DEF DispInv, LcdInv, Undoing
    <3>2. QED
      BY <2>1, <2>4, <3>1, ShownOnLcd
  <2>5. ASSUME pc \in {"exit", "end"}, line.app # "direct"
        PROVE  /\ \A c \in Connectors : Shown(kms, c) \notin Framebuffers
               /\ \A p \in DOMAIN kms.plane : kms.plane[p].fb \notin Framebuffers
    <3>1. /\ \A x \in Crtcs : kms.image[x] \notin Framebuffers
          /\ \A p \in DOMAIN kms.plane : kms.plane[p].fb \notin Framebuffers
      BY <2>1, <2>5 DEF DispInv, LeftInv
    <3>2. \A c \in Connectors : kms.route[c] \in Crtcs \cup {Off}
      BY <2>1, <2>5 DEF DispInv, KmsInv
    <3>3. "nothing" \notin Framebuffers
      BY DEF Framebuffers
    <3>4. QED
      BY <3>1, <3>2, <3>3 DEF Shown
  <2>6. pc = "exit" =>
          IF dev.at = "set_hdmi" THEN Shown(kms, dev.lcd) = "nothing"
          ELSE \A c \in Connectors : Shown(kms, c) = Shown(Initially(board), c)
    BY <2>1 DEF DispInv, LeftInv
  <2>7. QED
    BY <2>2, <2>3, <2>4, <2>5, <2>6 DEF LcdRestored
<1>2. QED
  BY <1>1, DispAlways, PTL

-----------------------------------------------------------------------------
(* The fills of a buffer. *)

\* Byte r of line y of h lines of s bytes is one of their s * h bytes.
LEMMA RowInside ==
  ASSUME NEW s \in Nat, NEW h \in Nat, NEW y \in 0 .. h - 1, NEW r \in 0 .. s - 1
  PROVE  y * s + r \in 0 .. s * h - 1
<1> DEFINE d == h - 1 - y
<1>1. d \in Nat /\ h = y + 1 + d
  OBVIOUS
<1>2. d * s \in Nat /\ y * s \in Nat
  BY <1>1
<1>3. s * h = y * s + s + d * s
  BY <1>1
<1>4. QED
  BY <1>2, <1>3

\* The same h lines further down, in a buffer with k more.
LEMMA LowerRowInside ==
  ASSUME NEW s \in Nat, NEW h \in Nat, NEW k \in Nat, NEW y \in 0 .. k - 1, NEW r \in 0 .. s - 1
  PROVE  s * h + y * s + r \in 0 .. s * (h + k) - 1
<1>1. y * s + r \in 0 .. s * k - 1
  BY RowInside
<1>2. s * (h + k) = s * h + s * k /\ s * h \in Nat /\ s * k \in Nat /\ y * s \in Nat
  OBVIOUS
<1>3. QED
  BY <1>1, <1>2

\* A line below them is outside.
LEMMA BelowOutside ==
  ASSUME NEW s \in Nat, NEW h \in Nat, NEW k \in Nat, NEW y \in Nat, y >= k, NEW r \in Nat
  PROVE  s * h + y * s + r \notin 0 .. s * (h + k) - 1
<1> DEFINE d == y - k
<1>1. d \in Nat /\ y = k + d
  OBVIOUS
<1> HIDE DEF d
<1>2. d * s \in Nat /\ k * s \in Nat /\ s * h \in Nat
  BY <1>1
<1>3. y * s = k * s + d * s /\ s * (h + k) = s * h + k * s
  BY <1>1
<1>4. QED
  BY <1>2, <1>3

LEMMA FormatInfo ==
  /\ \A f \in SemiPlanar : /\ YuvInfo[f].xsub = 2 /\ YuvInfo[f].chroma_stride = 2
                           /\ YuvInfo[f].ysub = IF f \in {"NV12", "NV21"} THEN 2 ELSE 1
  /\ \A f \in Planar : YuvInfo[f].xsub = 2 /\ YuvInfo[f].chroma_stride = 1 /\ YuvInfo[f].ysub = 2
  /\ \A f \in Rgb : RgbBytes[f] \in 2 .. 4
<1>1. /\ YuvInfo["NV12"] = Info(FALSE, FALSE, 2, 2, 2) /\ YuvInfo["NV21"] = Info(TRUE, FALSE, 2, 2, 2)
      /\ YuvInfo["NV16"] = Info(FALSE, FALSE, 2, 1, 2) /\ YuvInfo["NV61"] = Info(TRUE, FALSE, 2, 1, 2)
      /\ YuvInfo["YUV420"] = Info(FALSE, FALSE, 2, 2, 1) /\ YuvInfo["YVU420"] = Info(TRUE, FALSE, 2, 2, 1)
  BY DEF YuvInfo
<1>2. ASSUME NEW f \in SemiPlanar
      PROVE  /\ YuvInfo[f].xsub = 2 /\ YuvInfo[f].chroma_stride = 2
             /\ YuvInfo[f].ysub = IF f \in {"NV12", "NV21"} THEN 2 ELSE 1
  <2>1. f = "NV12" \/ f = "NV21" \/ f = "NV16" \/ f = "NV61"
    BY DEF SemiPlanar
  <2>2. QED
    BY <1>1, <2>1 DEF Info
<1>3. ASSUME NEW f \in Planar
      PROVE  YuvInfo[f].xsub = 2 /\ YuvInfo[f].chroma_stride = 1 /\ YuvInfo[f].ysub = 2
  <2>1. f = "YUV420" \/ f = "YVU420"
    BY DEF Planar
  <2>2. QED
    BY <1>1, <2>1 DEF Info
<1>4. ASSUME NEW f \in Rgb PROVE RgbBytes[f] \in 2 .. 4
  <2>1. f = "rgb16" \/ f = "rgb24" \/ f = "rgb32"
    BY DEF Rgb, RgbBytes
  <2>2. QED
    BY <2>1 DEF RgbBytes
<1>5. QED
  BY <1>2, <1>3, <1>4

\* A fill of the packed formats: pairs of pixels, four bytes each.
LEMMA PackedInside ==
  ASSUME NEW i, NEW w \in Nat, NEW h \in Nat, NEW s \in Nat, s >= 4 * w,
         NEW wr \in fill_smpte_yuv_packed(i, w, h, s) \cup fill_tiles_yuv_packed(i, w, h, s)
  PROVE  wr.at \in 0 .. s * h - 1
<1>1. LumaAt(i) \in 0 .. 1
  BY DEF LumaAt
<1>2. \A k : PackedAt(i, k) \in 0 .. 3
  BY DEF PackedAt
<1>3. PICK y \in Rows(h), r \in 0 .. s - 1 : wr.at = y * s + r
  <2>1. CASE \E x \in Columns(w), y \in Rows(h) : wr.at = y * s + LumaAt(i) + 2 * x
    <3>1. PICK x \in Columns(w), y \in Rows(h) : wr.at = y * s + LumaAt(i) + 2 * x
      BY <2>1
    <3>2. LumaAt(i) + 2 * x \in 0 .. s - 1 /\ y * s \in Int
      BY <1>1 DEF Columns, Rows
    <3>3. wr.at = y * s + (LumaAt(i) + 2 * x)
      BY <1>1, <3>1, <3>2 DEF Columns
    <3>4. QED
      BY <3>2, <3>3
  <2>2. CASE \E x \in Pairs(w), y \in Rows(h) : \E k : wr.at = y * s + 2 * x + PackedAt(i, k)
    <3>1. PICK x \in Pairs(w), y \in Rows(h) : \E k : wr.at = y * s + 2 * x + PackedAt(i, k)
      BY <2>2
    <3>2. PICK k : wr.at = y * s + 2 * x + PackedAt(i, k)
      BY <3>1
    <3>3. x \in Nat /\ x < w /\ y * s \in Int /\ PackedAt(i, k) \in 0 .. 3
      BY <1>2 DEF Rows, Pairs, Columns
    <3>4. 2 * x + PackedAt(i, k) \in 0 .. s - 1
      BY <3>3
    <3>5. wr.at = y * s + (2 * x + PackedAt(i, k))
      BY <3>2, <3>3
    <3>6. QED
      BY <3>4, <3>5
  <2>3. CASE \E x \in Pairs(w), d \in {0, 1}, y \in Rows(h) : wr.at = y * s + LumaAt(i) + 2 * (x + d)
    <3>1. PICK x \in Pairs(w), d \in {0, 1}, y \in Rows(h) : wr.at = y * s + LumaAt(i) + 2 * (x + d)
      BY <2>3
    <3>2. x \in Nat /\ x < w /\ y * s \in Int
      BY DEF Rows, Pairs, Columns
    <3>3. LumaAt(i) + 2 * (x + d) \in 0 .. s - 1
      BY <1>1, <3>2
    <3>4. wr.at = y * s + (LumaAt(i) + 2 * (x + d))
      BY <1>1, <3>1, <3>2
    <3>5. QED
      BY <3>3, <3>4
  <2>4. QED
    BY <2>1, <2>2, <2>3 DEF fill_smpte_yuv_packed, fill_tiles_yuv_packed, Put
<1>4. QED
  BY <1>3, RowInside DEF Rows

LEMMA RgbInside ==
  ASSUME NEW b \in 2 .. 4, NEW w \in Nat, NEW h \in Nat, NEW s \in Nat, s >= 4 * w,
         NEW wr \in fill_smpte_rgb(b, w, h, s) \cup fill_tiles_rgb(b, w, h, s)
  PROVE  wr.at \in 0 .. s * h - 1
<1>1. PICK x \in Columns(w), y \in Rows(h), k \in 0 .. b - 1 : wr.at = y * s + b * x + k
  BY DEF fill_smpte_rgb, fill_tiles_rgb, Put
<1>2. x \in 0 .. w - 1 /\ b * x \in Nat /\ b * x + k <= 4 * (w - 1) + 3 /\ y * s \in Int
  <2>1. x \in 0 .. w - 1 /\ y \in 0 .. h - 1
    BY DEF Columns, Rows
  <2>2. (b = 2 \/ b = 3 \/ b = 4) /\ y * s \in Int
    BY <2>1
  <2>3. QED
    BY <2>1, <2>2
<1>3. b * x + k \in 0 .. s - 1 /\ wr.at = y * s + (b * x + k)
  BY <1>1, <1>2
<1>4. QED
  BY <1>3, RowInside DEF Rows

\* A fill of the formats with planes, Y: a byte a pixel.
LEMMA LumaInside ==
  ASSUME NEW i, NEW p, p.y = 0, NEW w \in Nat, NEW h \in Nat, NEW s \in Nat, s >= 4 * w,
         NEW wr \in fill_smpte_yuv_planar(i, p, w, h, s) \cup fill_tiles_yuv_planar(i, p, w, h, s),
         wr.kind = "Y"
  PROVE  wr.at \in 0 .. s * h - 1
<1>1. PICK x \in Columns(w), y \in Rows(h) : wr.at = 0 + y * s + x
  BY DEF fill_smpte_yuv_planar, fill_tiles_yuv_planar, Put
<1>2. x \in 0 .. s - 1 /\ y * s \in Int
  BY DEF Columns, Rows
<1>3. wr.at = y * s + x
  BY <1>1, <1>2
<1>4. QED
  BY <1>2, <1>3, RowInside DEF Rows

\* Their chroma: a line for every ysub lines, and in tiles one for what is left.
LEMMA ChromaWrites ==
  ASSUME NEW i, NEW p, NEW w \in Nat, NEW h \in Nat, NEW s \in Nat, i.ysub \in {1, 2},
         NEW wr \in fill_smpte_yuv_planar(i, p, w, h, s) \cup fill_tiles_yuv_planar(i, p, w, h, s),
         wr.kind # "Y"
  PROVE  /\ wr.kind \in {"u", "v"} /\ wr.y \in Nat /\ wr.y <= h \div i.ysub /\ (i.ysub = 1 => wr.y < h)
         /\ \E x \in Columns(w) : wr.at = p[wr.kind] + wr.y * ChromaLine(i, s) + ChromaAt(i, x)
<1>1. CASE wr \in fill_smpte_yuv_planar(i, p, w, h, s)
  <2>1. PICK k \in {"u", "v"} : \E x \in Pairs(w), y \in Rows(h \div i.ysub) :
               wr = Put(p[k] + y * ChromaLine(i, s) + ChromaAt(i, x), k, x, y, SmpteColor(x, y, w, h \div i.ysub))
    BY <1>1 DEF fill_smpte_yuv_planar, Put
  <2>2. PICK x \in Pairs(w), y \in Rows(h \div i.ysub) :
               wr.at = p[k] + y * ChromaLine(i, s) + ChromaAt(i, x) /\ wr.kind = k /\ wr.y = y
    BY <2>1 DEF Put
  <2>3. y \in Nat /\ y <= h \div i.ysub /\ (i.ysub = 1 => y < h) /\ x \in Columns(w)
    BY DEF Rows, Pairs
  <2>4. QED
    BY <2>2, <2>3
<1>2. CASE wr \in fill_tiles_yuv_planar(i, p, w, h, s)
  <2>1. PICK x \in Columns(w), y \in Rows(h), k \in {"u", "v"} :
               wr = Put(p[k] + (y \div i.ysub) * ChromaLine(i, s) + ChromaAt(i, x), k, x, y \div i.ysub, TileColor(x, y, w))
    BY <1>2 DEF fill_tiles_yuv_planar, Put
  <2>2. wr.at = p[k] + (y \div i.ysub) * ChromaLine(i, s) + ChromaAt(i, x) /\ wr.kind = k /\ wr.y = y \div i.ysub
    BY <2>1 DEF Put
  <2>3. y \div i.ysub \in Nat /\ y \div i.ysub <= h \div i.ysub /\ (i.ysub = 1 => y \div i.ysub < h)
    BY DEF Rows
  <2>4. QED
    BY <2>2, <2>3
<1>3. QED
  BY <1>1, <1>2

\* U and V side by side: the virtual height has room for h div ysub lines.
LEMMA PairedChromaInside ==
  ASSUME NEW i, NEW p, NEW w \in Nat, NEW h \in Nat, NEW s \in Nat, s >= 4 * w,
         i.xsub = 2, i.chroma_stride = 2, i.ysub \in {1, 2},
         p.u \in {s * h, s * h + 1}, p.v \in {s * h, s * h + 1},
         NEW wr \in fill_smpte_yuv_planar(i, p, w, h, s) \cup fill_tiles_yuv_planar(i, p, w, h, s),
         wr.kind # "Y"
  PROVE  wr.at \in 0 .. s * (h + h \div i.ysub) - 1 <=> ~(i.ysub = 2 /\ wr.y = h \div i.ysub)
<1> DEFINE n == h \div i.ysub
<1>1. ChromaLine(i, s) = s
  BY DEF ChromaLine
<1>2. n \in Nat /\ (i.ysub = 1 => n = h)
  OBVIOUS
<1>3. /\ wr.kind \in {"u", "v"} /\ wr.y \in Nat /\ wr.y <= n /\ (i.ysub = 1 => wr.y < h)
      /\ \E x \in Columns(w) : wr.at = p[wr.kind] + wr.y * s + ChromaAt(i, x)
  BY <1>1, ChromaWrites
<1> HIDE DEF n
<1>4. PICK x \in Columns(w) : wr.at = p[wr.kind] + wr.y * s + ChromaAt(i, x)
  BY <1>3
<1>5. ChromaAt(i, x) \in Nat /\ ChromaAt(i, x) + 1 < s
  BY DEF ChromaAt, Columns
<1>6. PICK e \in {0, 1} : p[wr.kind] = s * h + e
  <2>1. s * h \in Int /\ (p[wr.kind] = p.u \/ p[wr.kind] = p.v)
    BY <1>3
  <2>2. p[wr.kind] = s * h + 0 \/ p[wr.kind] = s * h + 1
    BY <2>1
  <2>3. QED
    BY <2>2
<1>7. e + ChromaAt(i, x) \in 0 .. s - 1 /\ wr.y * s \in Int /\ s * h \in Int
  BY <1>3, <1>5
<1>8. wr.at = s * h + wr.y * s + (e + ChromaAt(i, x))
  BY <1>4, <1>5, <1>6, <1>7
<1>9. CASE wr.y < n
  <2>1. wr.y \in 0 .. n - 1
    BY <1>2, <1>3, <1>9
  <2>2. wr.at \in 0 .. s * (h + n) - 1
    BY <1>2, <1>7, <1>8, <2>1, LowerRowInside
  <2>3. QED
    BY <1>2, <1>3, <1>9, <2>2 DEF n
<1>10. CASE ~(wr.y < n)
  <2>1. wr.y = n /\ i.ysub = 2 /\ wr.y >= n /\ e + ChromaAt(i, x) \in Nat
    BY <1>2, <1>3, <1>7, <1>10
  <2>2. wr.at \notin 0 .. s * (h + n) - 1
    BY <1>2, <1>3, <1>8, <2>1, BelowOutside
  <2>3. QED
    BY <2>1, <2>2 DEF n
<1>11. QED
  BY <1>9, <1>10

\* Planes of their own: behind h lines, where the buffer ends.
LEMMA PlanarChromaOutside ==
  ASSUME NEW i, NEW p, NEW w \in Nat, NEW h \in Nat, NEW s \in Nat,
         i.xsub = 2, i.chroma_stride = 1, i.ysub = 2,
         p.u \in Nat, p.u >= s * h, p.v \in Nat, p.v >= s * h,
         NEW wr \in fill_smpte_yuv_planar(i, p, w, h, s) \cup fill_tiles_yuv_planar(i, p, w, h, s),
         wr.kind # "Y"
  PROVE  wr.at \notin 0 .. s * h - 1
<1>1. ChromaLine(i, s) \in Nat /\ \A x \in Columns(w) : ChromaAt(i, x) \in Nat
  BY DEF ChromaLine, ChromaAt, Columns
<1>2. /\ wr.kind \in {"u", "v"} /\ wr.y \in Nat
      /\ \E x \in Columns(w) : wr.at = p[wr.kind] + wr.y * ChromaLine(i, s) + ChromaAt(i, x)
  BY ChromaWrites
<1>3. PICK x \in Columns(w) : wr.at = p[wr.kind] + wr.y * ChromaLine(i, s) + ChromaAt(i, x)
  BY <1>2
<1>4. wr.y * ChromaLine(i, s) \in Nat /\ s * h \in Nat /\ p[wr.kind] \in Nat /\ p[wr.kind] >= s * h
  BY <1>1, <1>2
<1>5. QED
  BY <1>1, <1>3, <1>4

LEMMA PlaneOffsets ==
  ASSUME NEW f, NEW s, NEW h
  PROVE  /\ Offsets(f, s, h)[0] = 0
         /\ f \in SemiPlanar \cup Planar => Offsets(f, s, h)[1] = s * h
         /\ f \in Planar => Offsets(f, s, h)[2] = s * h + ((s \div 2) * h) \div 2
<1>1. /\ 0 \in 0 .. LastPlane(f) /\ (f \in SemiPlanar \cup Planar => 1 \in 0 .. LastPlane(f))
      /\ f \in Planar => 2 \in 0 .. LastPlane(f)
  BY DEF LastPlane, SemiPlanar, Planar
<1>2. QED
  BY <1>1 DEF Offsets

\* The planes of chroma of the formats that have two.
LEMMA PlanarPlanes ==
  ASSUME NEW f \in Planar, NEW s \in Nat, NEW h \in Nat
  PROVE  LET q == PlanesOf(f, Offsets(f, s, h))
         IN /\ q.y = 0 /\ \A k \in {"u", "v"} : q[k] = Offsets(f, s, h)[UvPlane(f)[k]]
            /\ \A k \in {"u", "v"} : q[k] \in Nat /\ q[k] >= s * h
<1> DEFINE p == Offsets(f, s, h)
           q == PlanesOf(f, p)
<1>1. p[0] = 0 /\ p[1] \in Nat /\ p[2] \in Nat /\ p[1] >= s * h /\ p[2] >= s * h
  <2>1. s * h \in Nat /\ ((s \div 2) * h) \div 2 \in Nat
    <3>1. (s \div 2) * h \in Nat
      OBVIOUS
    <3>2. QED
      BY <3>1
  <2>2. QED
    BY <2>1, PlaneOffsets
<1>2. f \notin SemiPlanar /\ (f = "YUV420" \/ f = "YVU420")
  BY DEF Planar, SemiPlanar
<1>3. /\ YuvInfo["YUV420"] = Info(FALSE, FALSE, 2, 2, 1) /\ YuvInfo["YVU420"] = Info(TRUE, FALSE, 2, 2, 1)
  BY DEF YuvInfo
<1> HIDE DEF p
<1>4. CASE f = "YUV420"
  <2>1. q = [y |-> p[0], u |-> p[1], v |-> p[2]]
    BY <1>2, <1>4 DEF PlanesOf
  <2>2. UvPlane(f) = [u |-> 1, v |-> 2]
    BY <1>3, <1>4 DEF UvPlane, Info
  <2>3. QED
    BY <1>1, <2>1, <2>2 DEF p
<1>5. CASE f = "YVU420"
  <2>1. q = [y |-> p[0], u |-> p[2], v |-> p[1]]
    BY <1>2, <1>5 DEF PlanesOf
  <2>2. UvPlane(f) = [u |-> 2, v |-> 1]
    BY <1>3, <1>5 DEF UvPlane, Info
  <2>3. QED
    BY <1>1, <2>1, <2>2 DEF p
<1>6. QED
  BY <1>2, <1>4, <1>5

\* What the size that allocate_buffer asks for has room for.
LEMMA FillStaysInside ==
  ASSUME NEW f, NEW pattern \in {"tiles", "smpte", "plain"},
         NEW w \in Nat, NEW h \in Nat, NEW s \in Nat, s >= 4 * w,
         NEW wr \in fill_pattern(f, pattern, Offsets(f, s, h), w, h, s)
  PROVE  wr.at \in 0 .. s * VirtualHeight(f, h) - 1
           <=> ~(/\ wr.kind \in {"u", "v"}
                 /\ f \in Planar \/ (f \in {"NV12", "NV21"} /\ wr.y = h \div 2))
<1> DEFINE p == Offsets(f, s, h)
<1>1. p[0] = 0 /\ (f \in SemiPlanar => p[1] = s * h)
  BY PlaneOffsets
<1> HIDE DEF p
<1>2. /\ f \in Known
      /\ pattern = "tiles" => wr \in fill_tiles(f, p, w, h, s)
      /\ pattern = "smpte" => wr \in fill_smpte(f, p, w, h, s)
      /\ pattern = "plain" => wr \in fill_plain(h, s)
  BY DEF fill_pattern, p
<1>3. /\ VirtualHeight(f, h) \in Nat
      /\ f \in SemiPlanar => VirtualHeight(f, h) = h + h \div YuvInfo[f].ysub
      /\ f \notin SemiPlanar => VirtualHeight(f, h) = h
  <2>1. f \in SemiPlanar => YuvInfo[f].ysub = IF f \in {"NV12", "NV21"} THEN 2 ELSE 1
    BY FormatInfo
  <2>2. (h * 3) \div 2 \in Nat /\ (h * 3) \div 2 = h + h \div 2 /\ h * 2 = h + h \div 1
    OBVIOUS
  <2>3. QED
    BY <2>1, <2>2 DEF VirtualHeight, SemiPlanar
<1>4. wr.at \in 0 .. s * h - 1 => wr.at \in 0 .. s * VirtualHeight(f, h) - 1
  <2> DEFINE k == VirtualHeight(f, h) - h
  <2>1. k \in Nat
    <3>1. f \in SemiPlanar => h \div YuvInfo[f].ysub \in Nat
      BY FormatInfo
    <3>2. QED
      BY <1>3, <3>1
  <2>2. VirtualHeight(f, h) = h + k
    <3>1. VirtualHeight(f, h) \in Int
      BY <1>3
    <3>2. QED
      BY <3>1
  <2> HIDE DEF k
  <2>3. s * (h + k) = s * h + s * k /\ s * k \in Nat /\ s * h \in Nat
    BY <2>1
  <2>4. QED
    BY <2>2, <2>3
<1>5. CASE pattern = "plain"
  <2>1. wr.at \in 0 .. s * h - 1 /\ wr.kind = "plain"
    BY <1>2, <1>5 DEF fill_plain, Put
  <2>2. QED
    BY <1>4, <2>1
<1>6. CASE pattern # "plain" /\ f \in Packed
  <2>1. wr \in fill_smpte_yuv_packed(YuvInfo[f], w, h, s) \cup fill_tiles_yuv_packed(YuvInfo[f], w, h, s)
    BY <1>2, <1>6 DEF fill_smpte, fill_tiles
  <2>2. f \notin Planar /\ f \notin {"NV12", "NV21"}
    BY <1>6 DEF Packed, Planar
  <2>3. QED
    BY <1>4, <2>1, <2>2, PackedInside
<1>7. CASE pattern # "plain" /\ f \in Rgb
  <2>1. wr \in fill_smpte_rgb(RgbBytes[f], w, h, s) \cup fill_tiles_rgb(RgbBytes[f], w, h, s)
    BY <1>2, <1>7 DEF fill_smpte, fill_tiles, Packed, Rgb, RgbBytes
  <2>2. RgbBytes[f] \in 2 .. 4
    BY <1>7, FormatInfo
  <2>3. f \notin Planar /\ f \notin {"NV12", "NV21"}
    BY <1>7 DEF Rgb, RgbBytes, Planar
  <2>4. QED
    BY <1>4, <2>1, <2>2, <2>3, RgbInside
<1>8. CASE pattern # "plain" /\ f \in SemiPlanar \cup Planar
  <2> DEFINE q == PlanesOf(f, p)
             i == YuvInfo[f]
  <2>1. wr \in fill_smpte_yuv_planar(i, q, w, h, s) \cup fill_tiles_yuv_planar(i, q, w, h, s)
    BY <1>2, <1>8 DEF fill_smpte, fill_tiles, Packed, Rgb, RgbBytes, SemiPlanar, Planar
  <2>2. q.y = 0
    BY <1>1 DEF PlanesOf, SemiPlanes
  <2>3. CASE wr.kind = "Y"
    <3> HIDE DEF q, i
    <3>1. QED
      BY <1>4, <2>1, <2>2, <2>3, LumaInside
  <2>4. i.ysub \in {1, 2} /\ i.xsub = 2
    BY <1>8, FormatInfo
  <2>5. wr.kind # "Y" => wr.kind \in {"u", "v"}
    <3> HIDE DEF q, i
    <3>1. QED
      BY <2>1, <2>4, ChromaWrites
  <2>6. CASE wr.kind # "Y" /\ f \in SemiPlanar
    <3>1. i.chroma_stride = 2 /\ (i.ysub = 2 <=> f \in {"NV12", "NV21"}) /\ f \notin Planar
      BY <2>6, FormatInfo DEF SemiPlanar, Planar
    <3>2. q.u \in {s * h, s * h + 1} /\ q.v \in {s * h, s * h + 1}
      <4>1. s * h \in Int
        OBVIOUS
      <4>2. QED
        BY <1>1, <2>6, <4>1 DEF PlanesOf, SemiPlanes
    <3>3. wr.at \in 0 .. s * (h + h \div i.ysub) - 1 <=> ~(i.ysub = 2 /\ wr.y = h \div i.ysub)
      <4> HIDE DEF q, i
      <4>1. QED
        BY <2>1, <2>4, <2>6, <3>1, <3>2, PairedChromaInside
    <3>4. QED
      BY <1>3, <2>5, <2>6, <3>1, <3>3
  <2>7. CASE wr.kind # "Y" /\ f \in Planar
    <3>1. i.chroma_stride = 1 /\ i.ysub = 2 /\ f \notin SemiPlanar
      BY <2>7, FormatInfo DEF SemiPlanar, Planar
    <3>2. q.u \in Nat /\ q.u >= s * h /\ q.v \in Nat /\ q.v >= s * h
      BY <2>7, PlanarPlanes DEF p
    <3>3. wr.at \notin 0 .. s * h - 1
      <4> HIDE DEF q, i
      <4>1. QED
        BY <2>1, <2>4, <2>7, <3>1, <3>2, PlanarChromaOutside
    <3>4. QED
      BY <1>3, <2>5, <2>7, <3>1, <3>3
  <2>8. QED
    BY <1>8, <2>3, <2>6, <2>7
<1>9. QED
  BY <1>2, <1>5, <1>6, <1>7, <1>8 DEF Known

-----------------------------------------------------------------------------
(* The buffers. *)

Asked == {"pc", "format", "pattern", "width", "height"}
Allocated == Asked \cup {"pitch", "size"}

\* The call of create_test_buffer that is under way, from the allocation to
\* the end of the fill.
BufInv ==
  /\ "pc" \in DOMAIN buf
  /\ buf.pc \in {"alloc", "map", "fill", "filled"} =>
       buf.width \in Nat /\ buf.height \in Nat /\ buf.pattern \in {"tiles", "smpte", "plain"}
  /\ buf.pc = "alloc" => DOMAIN buf = Asked
  /\ buf.pc \in {"map", "fill"} => DOMAIN buf = Allocated
  /\ buf.pc \in {"map", "fill", "filled"} =>
       /\ buf.pitch \in Nat /\ buf.pitch >= 4 * buf.width
       /\ buf.size = buf.pitch * VirtualHeight(buf.format, buf.height)
  /\ buf.pc = "filled" =>
       /\ buf.offsets = Offsets(buf.format, buf.pitch, buf.height)
       /\ buf.writes = fill_pattern(buf.format, buf.pattern, buf.offsets, buf.width, buf.height, buf.pitch)
       /\ ~(buf.pattern = "smpte" /\ buf.format \in Known /\ DividesByZero(buf.width))

\* Every call asks for a size and one of the patterns.
LEMMA CallAsks ==
  ASSUME DispInv, Create
  PROVE  BufInv'
<1>1. pc \in {"set_plane", "set_crtc", "set_hdmi", "set_plane1", "set_plane2"}
      /\ (pc = "set_hdmi" => line.app = "extended")
  BY DEF Create, Drawing
<1>2. pc \in HasCrtcs /\ pc # "end"
  BY <1>1 DEF HasCrtcs, Setting
<1>3. line \in Lines /\ line.app # "direct"
  BY <1>2, WhileSetting
<1>4. pc \in {"set_plane", "set_hdmi"} => Clonelike
  BY <1>1, <1>3 DEF DispInv, DevInv
<1>5. line.lcd \in Nat \X Nat /\ (Clonelike => line.hdmi \in Nat \X Nat /\ line.plane \in Nat \X Nat)
  BY <1>3, LinesAssumption DEF Clonelike
<1>6. Steps.size \in Nat \X Nat /\ Steps.pattern \in {"tiles", "smpte"}
  BY <1>1, <1>4, <1>5 DEF Steps, Step, SetPlaneStep, SetCrtcStep, SetExtendedStep, SetPlane1Step, SetPlane2Step
<1>7. buf' = [pc |-> "alloc", format |-> Steps.format, pattern |-> Steps.pattern,
              width |-> Steps.size[1], height |-> Steps.size[2]]
  BY DEF Create, CallCreate
<1>8. QED
  BY <1>6, <1>7 DEF BufInv, Asked

LEMMA CallProceeds ==
  ASSUME BufInv, CreateTestBuffer
  PROVE  BufInv'
<1>1. CASE allocate_buffer
  <2>1. buf.width \in Nat /\ buf.height \in Nat /\ buf.pattern \in {"tiles", "smpte", "plain"} /\ DOMAIN buf = Asked
    BY <1>1 DEF BufInv, allocate_buffer
  <2>2. CASE Return("null")
    BY <2>1, <2>2 DEF Return, BufInv, Asked
  <2>3. CASE ~Return("null")
    <3>1. PICK pitch \in {4 * buf.width, 4 * buf.width + Pad} :
            buf' = [pc |-> "map", format |-> buf.format, pattern |-> buf.pattern, width |-> buf.width,
                    height |-> buf.height, pitch |-> pitch,
                    size |-> pitch * VirtualHeight(buf.format, buf.height)]
      BY <1>1, <2>3 DEF allocate_buffer
    <3>2. pitch \in Nat /\ pitch >= 4 * buf.width
      BY <2>1, TestBufferAssumption
    <3>3. QED
      BY <2>1, <3>1, <3>2 DEF BufInv, Allocated, Asked
  <2>4. QED
    BY <2>2, <2>3
<1>2. CASE MapBuffer
  <2>1. PICK to \in {"fill", "null"} : buf' = [buf EXCEPT !.pc = to]
    BY <1>2 DEF MapBuffer, Return
  <2>2. DOMAIN buf = Allocated
    BY <1>2 DEF BufInv, MapBuffer
  <2>3. /\ DOMAIN buf' = Allocated /\ buf'.pc = to /\ buf'.width = buf.width /\ buf'.height = buf.height
        /\ buf'.pattern = buf.pattern /\ buf'.format = buf.format /\ buf'.pitch = buf.pitch /\ buf'.size = buf.size
    BY <2>1, <2>2 DEF Allocated, Asked
  <2>4. QED
    BY <1>2, <2>3 DEF BufInv, MapBuffer, Allocated, Asked
<1>3. CASE FillBuffer
  <2>1. /\ buf.width \in Nat /\ buf.height \in Nat /\ buf.pattern \in {"tiles", "smpte", "plain"} /\ DOMAIN buf = Allocated
        /\ buf.pitch \in Nat /\ buf.pitch >= 4 * buf.width
        /\ buf.size = buf.pitch * VirtualHeight(buf.format, buf.height)
    BY <1>3 DEF BufInv, FillBuffer
  <2>2. CASE buf.pattern = "smpte" /\ buf.format \in Known /\ DividesByZero(buf.width)
    <3>1. buf' = [buf EXCEPT !.pc = "crashed"]
      BY <1>3, <2>2 DEF FillBuffer, Return
    <3>2. "pc" \in DOMAIN buf' /\ buf'.pc = "crashed"
      BY <2>1, <3>1 DEF Allocated, Asked
    <3>3. QED
      BY <3>2 DEF BufInv
  <2>3. CASE ~(buf.pattern = "smpte" /\ buf.format \in Known /\ DividesByZero(buf.width))
    <3> DEFINE planes == Offsets(buf.format, buf.pitch, buf.height)
    <3>1. buf' = [pc |-> "filled", format |-> buf.format, pattern |-> buf.pattern, width |-> buf.width,
                  height |-> buf.height, pitch |-> buf.pitch, size |-> buf.size, offsets |-> planes,
                  writes |-> fill_pattern(buf.format, buf.pattern, planes, buf.width, buf.height, buf.pitch)]
      BY <1>3, <2>3 DEF FillBuffer
    <3> HIDE DEF planes
    <3>2. /\ "pc" \in DOMAIN buf' /\ buf'.pc = "filled" /\ buf'.format = buf.format /\ buf'.pattern = buf.pattern
          /\ buf'.width = buf.width /\ buf'.height = buf.height /\ buf'.pitch = buf.pitch /\ buf'.size = buf.size
          /\ buf'.offsets = planes
          /\ buf'.writes = fill_pattern(buf.format, buf.pattern, planes, buf.width, buf.height, buf.pitch)
      BY <3>1
    <3>3. QED
      BY <2>1, <2>3, <3>2 DEF BufInv, planes
  <2>4. QED
    BY <2>2, <2>3
<1>4. CASE Unmap
  <2>1. buf' = [buf EXCEPT !.pc = "done"] /\ "pc" \in DOMAIN buf
    BY <1>4 DEF Unmap, Return, BufInv
  <2>2. "pc" \in DOMAIN buf' /\ buf'.pc = "done"
    BY <2>1
  <2>3. QED
    BY <2>2 DEF BufInv
<1>5. QED
  BY <1>1, <1>2, <1>3, <1>4 DEF CreateTestBuffer

LEMMA NoCall ==
  ASSUME buf' = NoBuffer
  PROVE  BufInv'
BY DEF BufInv, NoBuffer

LEMMA BufAlways == Spec => []BufInv
<1>1. Init => BufInv
  <2>1. SUFFICES ASSUME Init PROVE BufInv
    OBVIOUS
  <2>2. CASE line.app = "direct"
    <3>1. /\ line \in Lines
          /\ buf = [pc |-> "alloc", format |-> line.format, pattern |-> line.pattern,
                    width |-> line.lcd[1], height |-> line.lcd[2]]
      BY <2>1, <2>2 DEF Init
    <3>2. line.lcd \in Nat \X Nat /\ line.pattern \in {"tiles", "smpte", "plain"}
      BY <2>2, <3>1, LinesAssumption
    <3>3. QED
      BY <3>1, <3>2 DEF BufInv, Asked
  <2>3. CASE line.app # "direct"
    BY <2>1, <2>3 DEF Init, BufInv, NoBuffer
  <2>4. QED
    BY <2>2, <2>3
<1>2. DispInv /\ BufInv /\ [Next]_vars => BufInv'
  <2>1. SUFFICES ASSUME DispInv, BufInv, [Next]_vars PROVE BufInv'
    OBVIOUS
  <2>2. CASE UNCHANGED buf
    BY <2>1, <2>2 DEF BufInv
  <2>3. CASE buf' = NoBuffer
    BY <2>3, NoCall
  <2>4. CASE Create
    BY <2>1, <2>4, CallAsks
  <2>5. CASE Creating
    BY <2>1, <2>5, CallProceeds DEF Creating
  <2>6. UNCHANGED buf \/ buf' = NoBuffer \/ Create \/ Creating
    <3>1. CASE Look
      BY <3>1 DEF Look, Open, GetConnectors, GetConnector, GetLcdEncoder, GetHdmiEncoder, GetEncoder,
                  GetLcdMode, GetHdmiMode, GetPlaneId, KmsCreate, Goto, Exit
    <3>2. CASE Show
      BY <3>2 DEF Show, SetProperties, CreateFailed, SetPlane, SetLcdCrtc, SetCloneMode, SetExtendedMode,
                  Advance, Refused
    <3>3. CASE Undo
      BY <3>3 DEF Undo, Key, Restore, Remove, DirectDone, Goto, Advance
    <3>4. CASE UNCHANGED vars
      BY <3>4 DEF vars
    <3>5. QED
      BY <2>1, <3>1, <3>2, <3>3, <3>4 DEF Next
  <2>7. QED
    BY <2>2, <2>3, <2>4, <2>5, <2>6
<1>3. QED
  BY <1>1, <1>2, DispAlways, PTL DEF Spec

\* Whatever the size, odd or even, the pitch that the driver chooses and the
\* format, the writes of a fill that lie outside the buffer are these and no others: the
\* chroma of the two planar formats, all of it, and in tiles of an odd height the last
\* line of chroma of NV12 and NV21 (create_test_buffer's virtual heights and offsets).
THEOREM DrmFillInside == Spec => []FillInside
<1>1. BufInv => FillInside
  <2>1. SUFFICES ASSUME BufInv, Filled, NEW wr \in buf.writes
                 PROVE  wr.at \in 0 .. buf.size - 1 <=> ~Beyond(wr)
    BY DEF FillInside
  <2>2. /\ buf.width \in Nat /\ buf.height \in Nat /\ buf.pattern \in {"tiles", "smpte", "plain"}
        /\ buf.pitch \in Nat /\ buf.pitch >= 4 * buf.width
        /\ buf.size = buf.pitch * VirtualHeight(buf.format, buf.height)
        /\ wr \in fill_pattern(buf.format, buf.pattern, Offsets(buf.format, buf.pitch, buf.height),
                               buf.width, buf.height, buf.pitch)
    BY <2>1 DEF BufInv, Filled
  <2>3. wr.at \in 0 .. buf.size - 1
          <=> ~(/\ wr.kind \in {"u", "v"}
                /\ buf.format \in Planar \/ (buf.format \in {"NV12", "NV21"} /\ wr.y = buf.height \div 2))
    <3> DEFINE f == buf.format
               w == buf.width
               h == buf.height
               s == buf.pitch
               pattern == buf.pattern
    <3>1. /\ w \in Nat /\ h \in Nat /\ pattern \in {"tiles", "smpte", "plain"} /\ s \in Nat /\ s >= 4 * w
          /\ wr \in fill_pattern(f, pattern, Offsets(f, s, h), w, h, s)
          /\ buf.size = s * VirtualHeight(f, h)
      BY <2>2
    <3> HIDE DEF f, w, h, s, pattern
    <3>2. wr.at \in 0 .. s * VirtualHeight(f, h) - 1
            <=> ~(/\ wr.kind \in {"u", "v"}
                  /\ f \in Planar \/ (f \in {"NV12", "NV21"} /\ wr.y = h \div 2))
      BY <3>1, FillStaysInside
    <3>3. QED
      BY <3>1, <3>2 DEF f, h
  <2>4. QED
    BY <2>3 DEF Beyond
<1>2. QED
  BY <1>1, BufAlways, PTL

-----------------------------------------------------------------------------
(* What the display controller makes of the fills. *)

\* The first pixel of pixel x's pair.
PairOf(x) == 2 * (x \div 2)

LEMMA PairOfColumn ==
  ASSUME NEW w \in Nat, NEW x \in Columns(w)
  PROVE  /\ PairOf(x) \in Pairs(w) /\ x \in {PairOf(x), PairOf(x) + 1} /\ PairOf(PairOf(x)) = PairOf(x)
         /\ x \in Pairs(w) => PairOf(x) = x
BY DEF PairOf, Pairs, Columns

LEMMA PackedComponents ==
  ASSUME NEW i
  PROVE  /\ i.YC = TRUE => LumaAt(i) = 0
         /\ i.YC = FALSE => LumaAt(i) = 1
         /\ i.YC = TRUE /\ i.YCrCb = TRUE => PackedAt(i, "u") = 3 /\ PackedAt(i, "v") = 1
         /\ i.YC = TRUE /\ i.YCrCb = FALSE => PackedAt(i, "u") = 1 /\ PackedAt(i, "v") = 3
         /\ i.YC = FALSE /\ i.YCrCb = TRUE => PackedAt(i, "u") = 2 /\ PackedAt(i, "v") = 0
         /\ i.YC = FALSE /\ i.YCrCb = FALSE => PackedAt(i, "u") = 0 /\ PackedAt(i, "v") = 2
<1>1. ("u" = "u") = TRUE /\ ("v" = "u") = FALSE
  OBVIOUS
<1>2. ASSUME i.YCrCb = TRUE PROVE (("u" = "u") = i.YCrCb) /\ ~(("v" = "u") = i.YCrCb)
  <2>1. ("u" = "u") = i.YCrCb
    BY <1>1, <1>2, Zenon
  <2>2. ~(("v" = "u") = i.YCrCb)
    BY <1>1, <1>2
  <2>3. QED
    BY <2>1, <2>2, Zenon
<1>3. ASSUME i.YCrCb = FALSE PROVE ~(("u" = "u") = i.YCrCb) /\ (("v" = "u") = i.YCrCb)
  <2>1. ~(("u" = "u") = i.YCrCb)
    BY <1>1, <1>3
  <2>2. ("v" = "u") = i.YCrCb
    BY <1>1, <1>3, Zenon
  <2>3. QED
    BY <2>1, <2>2, Zenon
<1>4. ASSUME NEW k, (k = "u") = i.YCrCb
      PROVE  (i.YC = TRUE => PackedAt(i, k) = 3) /\ (i.YC = FALSE => PackedAt(i, k) = 2)
  BY <1>4 DEF PackedAt
<1>5. ASSUME NEW k, ~((k = "u") = i.YCrCb)
      PROVE  (i.YC = TRUE => PackedAt(i, k) = 1) /\ (i.YC = FALSE => PackedAt(i, k) = 0)
  BY <1>5 DEF PackedAt
<1>6. (i.YC = TRUE => LumaAt(i) = 0) /\ (i.YC = FALSE => LumaAt(i) = 1)
  BY DEF LumaAt
<1>7. QED
  BY <1>2, <1>3, <1>4, <1>5, <1>6, Zenon

\* The fills and the display agree on the order of packed components.
LEMMA PackedOrder ==
  ASSUME NEW f \in Packed
  PROVE  /\ LumaAt(YuvInfo[f]) = PackedPlace[f]["Y"] /\ PackedPlace[f]["Y"] \in 0 .. 1
         /\ \A k \in {"u", "v"} : PackedAt(YuvInfo[f], k) = PackedPlace[f][k] /\ PackedPlace[f][k] \in 0 .. 3
<1>1. /\ YuvInfo["UYVY"] = Info(FALSE, FALSE, 2, 2, 2) /\ YuvInfo["VYUY"] = Info(TRUE, FALSE, 2, 2, 2)
      /\ YuvInfo["YUYV"] = Info(FALSE, TRUE, 2, 2, 2) /\ YuvInfo["YVYU"] = Info(TRUE, TRUE, 2, 2, 2)
  BY DEF YuvInfo
<1>2. CASE f = "UYVY"
  <2>1. YuvInfo["UYVY"].YC = FALSE /\ YuvInfo["UYVY"].YCrCb = FALSE
    BY <1>1 DEF Info
  <2>2. PackedAt(YuvInfo["UYVY"], "u") = 0 /\ PackedAt(YuvInfo["UYVY"], "v") = 2 /\ LumaAt(YuvInfo["UYVY"]) = 1
    BY <2>1, PackedComponents
  <2>3. QED
    BY <1>2, <2>2 DEF PackedPlace
<1>3. CASE f = "VYUY"
  <2>1. YuvInfo["VYUY"].YC = FALSE /\ YuvInfo["VYUY"].YCrCb = TRUE
    BY <1>1 DEF Info
  <2>2. PackedAt(YuvInfo["VYUY"], "u") = 2 /\ PackedAt(YuvInfo["VYUY"], "v") = 0 /\ LumaAt(YuvInfo["VYUY"]) = 1
    BY <2>1, PackedComponents
  <2>3. QED
    BY <1>3, <2>2 DEF PackedPlace
<1>4. CASE f = "YUYV"
  <2>1. YuvInfo["YUYV"].YC = TRUE /\ YuvInfo["YUYV"].YCrCb = FALSE
    BY <1>1 DEF Info
  <2>2. PackedAt(YuvInfo["YUYV"], "u") = 1 /\ PackedAt(YuvInfo["YUYV"], "v") = 3 /\ LumaAt(YuvInfo["YUYV"]) = 0
    BY <2>1, PackedComponents
  <2>3. QED
    BY <1>4, <2>2 DEF PackedPlace
<1>5. CASE f = "YVYU"
  <2>1. YuvInfo["YVYU"].YC = TRUE /\ YuvInfo["YVYU"].YCrCb = TRUE
    BY <1>1 DEF Info
  <2>2. PackedAt(YuvInfo["YVYU"], "u") = 3 /\ PackedAt(YuvInfo["YVYU"], "v") = 1 /\ LumaAt(YuvInfo["YVYU"]) = 0
    BY <2>1, PackedComponents
  <2>3. QED
    BY <1>5, <2>2 DEF PackedPlace
<1>6. QED
  BY <1>2, <1>3, <1>4, <1>5 DEF Packed

\* A fill of a packed format draws what the display looks for, and all of it.
LEMMA PackedDrawn ==
  ASSUME NEW f \in Packed, NEW w \in Nat, NEW h \in Nat, NEW s \in Nat,
         NEW b, b.format = f, b.pitch = s, NEW writes, writes = b.writes,
         \/ writes = fill_smpte_yuv_packed(YuvInfo[f], w, h, s)
         \/ writes = fill_tiles_yuv_packed(YuvInfo[f], w, h, s)
  PROVE  /\ \A wr \in writes : wr.at = Scanned(b, wr.kind, wr.x, wr.y)
         /\ \A k \in {"Y", "u", "v"}, x \in Columns(w), y \in Rows(h) :
              \E wr \in writes : wr.at = Scanned(b, k, x, y)
<1> DEFINE i == YuvInfo[f]
<1>1. ASSUME NEW x \in Nat, NEW y \in Nat
      PROVE  /\ Scanned(b, "Y", x, y) = y * s + LumaAt(i) + 2 * x
             /\ \A k \in {"u", "v"} : Scanned(b, k, x, y) = y * s + 2 * PairOf(x) + PackedAt(i, k)
  <2>1. /\ Scanned(b, "Y", x, y) = y * s + PackedPlace[f]["Y"] + 2 * x
        /\ \A k \in {"u", "v"} : Scanned(b, k, x, y) = y * s + PackedPlace[f][k] + 4 * (x \div 2)
    BY DEF Scanned
  <2>2. y * s \in Nat /\ x \div 2 \in Nat /\ 4 * (x \div 2) = 2 * PairOf(x) /\ PairOf(x) \in Nat
    BY DEF PairOf
  <2>3. LumaAt(i) = PackedPlace[f]["Y"] /\ \A k \in {"u", "v"} : PackedAt(i, k) = PackedPlace[f][k] /\ PackedPlace[f][k] \in 0 .. 3
    BY PackedOrder
  <2> HIDE DEF i
  <2>4. ASSUME NEW k \in {"u", "v"} PROVE Scanned(b, k, x, y) = y * s + 2 * PairOf(x) + PackedAt(i, k)
    <3>1. Scanned(b, k, x, y) = y * s + PackedAt(i, k) + 2 * PairOf(x) /\ PackedAt(i, k) \in Nat
      BY <2>1, <2>2, <2>3
    <3>2. QED
      BY <2>2, <3>1
  <2>5. QED
    BY <2>1, <2>3, <2>4
<1> HIDE DEF i
<1>2. /\ \A x \in Columns(w) : x \in Nat /\ PairOf(x) \in Pairs(w) /\ x \in {PairOf(x), PairOf(x) + 1} /\ PairOf(PairOf(x)) = PairOf(x)
      /\ \A x \in Pairs(w) : x \in Nat /\ x \in Columns(w) /\ x + 1 \in Nat /\ PairOf(x) = x
      /\ \A y \in Rows(h) : y \in Nat
  <2>1. \A x \in Columns(w) : x \in Nat /\ PairOf(x) \in Pairs(w) /\ x \in {PairOf(x), PairOf(x) + 1} /\ PairOf(PairOf(x)) = PairOf(x)
    BY PairOfColumn DEF Columns
  <2>2. ASSUME NEW x \in Pairs(w) PROVE x \in Nat /\ x \in Columns(w) /\ x + 1 \in Nat /\ PairOf(x) = x
    <3>1. x \in Columns(w) /\ x \in Nat /\ x + 1 \in Nat
      BY DEF Pairs, Columns
    <3>2. QED
      BY <3>1, PairOfColumn
  <2>3. \A y \in Rows(h) : y \in Nat
    BY DEF Rows
  <2>4. QED
    BY <2>1, <2>2, <2>3
<1>3. CASE writes = fill_smpte_yuv_packed(i, w, h, s)
  <2>1. ASSUME NEW wr \in writes PROVE wr.at = Scanned(b, wr.kind, wr.x, wr.y)
    <3>1. CASE \E x \in Columns(w), y \in Rows(h) :
                 wr = Put(y * s + LumaAt(i) + 2 * x, "Y", x, y, SmpteColor(x, y, w, h))
      BY <1>1, <1>2, <3>1 DEF Put
    <3>2. CASE \E x \in Pairs(w), y \in Rows(h), k \in {"u", "v"} :
                 wr = Put(y * s + 2 * x + PackedAt(i, k), k, x, y, SmpteColor(x, y, w, h))
      <4>1. PICK x \in Pairs(w), y \in Rows(h), k \in {"u", "v"} :
                 wr = Put(y * s + 2 * x + PackedAt(i, k), k, x, y, SmpteColor(x, y, w, h))
        BY <3>2
      <4>2. wr.at = y * s + 2 * x + PackedAt(i, k) /\ wr.kind = k /\ wr.x = x /\ wr.y = y
        BY <4>1 DEF Put
      <4>3. QED
        BY <1>1, <1>2, <4>2
    <3>3. QED
      BY <1>3, <3>1, <3>2 DEF fill_smpte_yuv_packed
  <2>2. ASSUME NEW k \in {"Y", "u", "v"}, NEW x \in Columns(w), NEW y \in Rows(h)
        PROVE  \E wr \in writes : wr.at = Scanned(b, k, x, y)
    <3>1. CASE k = "Y"
      <4>1. Put(y * s + LumaAt(i) + 2 * x, "Y", x, y, SmpteColor(x, y, w, h)) \in writes
        BY <1>3 DEF fill_smpte_yuv_packed
      <4>2. QED
        BY <1>1, <1>2, <3>1, <4>1 DEF Put
    <3>2. CASE k # "Y"
      <4> DEFINE x0 == PairOf(x)
      <4>0. k \in {"u", "v"} /\ x0 \in Pairs(w)
        BY <1>2, <3>2
      <4>a. Scanned(b, k, x, y) = y * s + 2 * x0 + PackedAt(i, k)
        BY <1>1, <1>2, <4>0
      <4> HIDE DEF x0
      <4>1. Put(y * s + 2 * x0 + PackedAt(i, k), k, x0, y, SmpteColor(x0, y, w, h)) \in writes
        BY <1>3, <4>0 DEF fill_smpte_yuv_packed
      <4>2. QED
        BY <4>a, <4>1 DEF Put
    <3>3. QED
      BY <3>1, <3>2
  <2>3. QED
    BY <2>1, <2>2
<1>4. CASE writes = fill_tiles_yuv_packed(i, w, h, s)
  <2>1. ASSUME NEW wr \in writes PROVE wr.at = Scanned(b, wr.kind, wr.x, wr.y)
    <3>1. CASE \E x \in Pairs(w), d \in {0, 1}, y \in Rows(h) :
                 wr = Put(y * s + LumaAt(i) + 2 * (x + d), "Y", x + d, y, TileColor(x, y, w))
      <4>1. PICK x \in Pairs(w), d \in {0, 1}, y \in Rows(h) :
                 wr = Put(y * s + LumaAt(i) + 2 * (x + d), "Y", x + d, y, TileColor(x, y, w))
        BY <3>1
      <4>2. wr.at = y * s + LumaAt(i) + 2 * (x + d) /\ wr.kind = "Y" /\ wr.x = x + d /\ wr.y = y
        BY <4>1 DEF Put
      <4>3. x + d \in Nat /\ y \in Nat
        BY <1>2
      <4>4. QED
        BY <1>1, <4>2, <4>3
    <3>2. CASE \E x \in Pairs(w), y \in Rows(h), k \in {"u", "v"} :
                 wr = Put(y * s + 2 * x + PackedAt(i, k), k, x, y, TileColor(x, y, w))
      <4>1. PICK x \in Pairs(w), y \in Rows(h), k \in {"u", "v"} :
                 wr = Put(y * s + 2 * x + PackedAt(i, k), k, x, y, TileColor(x, y, w))
        BY <3>2
      <4>2. wr.at = y * s + 2 * x + PackedAt(i, k) /\ wr.kind = k /\ wr.x = x /\ wr.y = y
        BY <4>1 DEF Put
      <4>3. QED
        BY <1>1, <1>2, <4>2
    <3>3. QED
      BY <1>4, <3>1, <3>2 DEF fill_tiles_yuv_packed
  <2>2. ASSUME NEW k \in {"Y", "u", "v"}, NEW x \in Columns(w), NEW y \in Rows(h)
        PROVE  \E wr \in writes : wr.at = Scanned(b, k, x, y)
    <3> DEFINE x0 == PairOf(x)
    <3>1. x0 \in Pairs(w) /\ x0 \in Nat /\ x \in Nat
      BY <1>2
    <3>2. CASE k = "Y"
      <4>1. PICK d \in {0, 1} : x = x0 + d
        BY <1>2, <3>1
      <4> HIDE DEF x0
      <4>2. Put(y * s + LumaAt(i) + 2 * (x0 + d), "Y", x0 + d, y, TileColor(x0, y, w)) \in writes
        BY <1>4, <3>1 DEF fill_tiles_yuv_packed
      <4>3. Scanned(b, "Y", x, y) = y * s + LumaAt(i) + 2 * (x0 + d)
        BY <1>1, <1>2, <4>1
      <4>4. QED
        BY <3>2, <4>2, <4>3 DEF Put
    <3>3. CASE k # "Y"
      <4>1. k \in {"u", "v"} /\ Scanned(b, k, x, y) = y * s + 2 * x0 + PackedAt(i, k)
        BY <1>1, <1>2, <3>3
      <4> HIDE DEF x0
      <4>2. Put(y * s + 2 * x0 + PackedAt(i, k), k, x0, y, TileColor(x0, y, w)) \in writes
        BY <1>4, <3>1, <4>1 DEF fill_tiles_yuv_packed
      <4>3. QED
        BY <4>1, <4>2 DEF Put
    <3>4. QED
      BY <3>2, <3>3
  <2>3. QED
    BY <2>1, <2>2
<1>5. QED
  BY <1>3, <1>4 DEF i

LEMMA RgbDrawn ==
  ASSUME NEW f \in Rgb, NEW w \in Nat, NEW h \in Nat, NEW s \in Nat,
         NEW b, b.format = f, b.pitch = s, NEW writes, writes = b.writes,
         \/ writes = fill_smpte_rgb(RgbBytes[f], w, h, s)
         \/ writes = fill_tiles_rgb(RgbBytes[f], w, h, s)
  PROVE  /\ \A wr \in writes : wr.at - Scanned(b, wr.kind, wr.x, wr.y) \in 0 .. RgbBytes[f] - 1
         /\ \A x \in Columns(w), y \in Rows(h) : \E wr \in writes : wr.at = Scanned(b, "RGB", x, y)
<1> DEFINE n == RgbBytes[f]
<1>1. n \in 2 .. 4 /\ \A k, x, y : Scanned(b, k, x, y) = y * s + n * x
  BY FormatInfo DEF Scanned, Packed, Rgb, RgbBytes
<1> HIDE DEF n
<1>2. ASSUME NEW wr \in writes PROVE wr.at - Scanned(b, wr.kind, wr.x, wr.y) \in 0 .. n - 1
  <2>1. PICK x \in Columns(w), y \in Rows(h), k \in 0 .. n - 1 :
               wr.at = y * s + n * x + k /\ wr.x = x /\ wr.y = y
    BY DEF fill_smpte_rgb, fill_tiles_rgb, Put, n
  <2>2. y * s \in Int /\ n * x \in Int
    BY <1>1 DEF Columns, Rows
  <2>3. QED
    BY <1>1, <2>1, <2>2
<1>3. ASSUME NEW x \in Columns(w), NEW y \in Rows(h) PROVE \E wr \in writes : wr.at = Scanned(b, "RGB", x, y)
  <2>1. 0 \in 0 .. n - 1 /\ y * s + n * x \in Int
    BY <1>1 DEF Columns, Rows
  <2>2. \/ Put(y * s + n * x + 0, "RGB", x, y, SmpteColor(x, y, w, h)) \in writes
        \/ Put(y * s + n * x + 0, "RGB", x, y, TileColor(x, y, w)) \in writes
    BY <2>1 DEF fill_smpte_rgb, fill_tiles_rgb, n
  <2>3. PICK wr \in writes : wr.at = y * s + n * x + 0
    BY <2>2 DEF Put
  <2>4. QED
    BY <1>1, <2>1, <2>3
<1>4. QED
  BY <1>2, <1>3 DEF n

\* The fills and the display agree on which of U and V comes first.
LEMMA ChromaOrder ==
  ASSUME NEW f \in SemiPlanar, NEW p, NEW k \in {"u", "v"}
  PROVE  UvOrder(f)[k] \in 0 .. 1 /\ (p[1] \in Int => PlanesOf(f, p)[k] = p[1] + UvOrder(f)[k])
<1>1. k = "u" \/ k = "v"
  OBVIOUS
<1>2. PlanesOf(f, p) = SemiPlanes(f, p)
  BY DEF PlanesOf
<1>3. CASE YuvInfo[f].YCrCb
  <2>1. UvOrder(f) = [u |-> 1, v |-> 0] /\ PlanesOf(f, p) = [y |-> p[0], u |-> p[1] + 1, v |-> p[1] + 0]
    BY <1>2, <1>3 DEF UvOrder, SemiPlanes
  <2>2. QED
    BY <1>1, <2>1
<1>4. CASE ~YuvInfo[f].YCrCb
  <2>1. UvOrder(f) = [u |-> 0, v |-> 1] /\ PlanesOf(f, p) = [y |-> p[0], u |-> p[1] + 0, v |-> p[1] + 1]
    BY <1>2, <1>4 DEF UvOrder, SemiPlanes
  <2>2. QED
    BY <1>1, <2>1
<1>5. QED
  BY <1>3, <1>4

\* A fill of a format with planes, one or two of chroma, draws what the display
\* looks for, and all of it but for the chroma of the last odd line of bars.
LEMMA PlanesDrawn ==
  ASSUME NEW f \in SemiPlanar \cup Planar, NEW w \in Nat, NEW h \in Nat, NEW s \in Nat,
         NEW b, b.format = f, b.pitch = s, b.offsets = Offsets(f, s, h), NEW writes, writes = b.writes,
         \/ b.pattern = "smpte" /\ writes = fill_smpte_yuv_planar(YuvInfo[f], PlanesOf(f, Offsets(f, s, h)), w, h, s)
         \/ b.pattern = "tiles" /\ writes = fill_tiles_yuv_planar(YuvInfo[f], PlanesOf(f, Offsets(f, s, h)), w, h, s)
  PROVE  /\ \A wr \in writes :
              /\ wr.at \in Int
              /\ wr.at = Scanned(b, wr.kind, wr.x, IF wr.kind # "Y" THEN wr.y * YuvInfo[f].ysub ELSE wr.y)
         /\ \A k \in {"Y", "u", "v"}, x \in Columns(w), y \in Rows(h) :
              \/ \E wr \in writes : wr.at = Scanned(b, k, x, y)
              \/ b.pattern = "smpte" /\ k # "Y" /\ y \div YuvInfo[f].ysub = h \div YuvInfo[f].ysub
<1> DEFINE i == YuvInfo[f]
           p == Offsets(f, s, h)
           q == PlanesOf(f, p)
           n == i.ysub
           l == ChromaLine(i, s)
<1>1. /\ n \in {1, 2} /\ i.xsub = 2 /\ i.chroma_stride \in {1, 2}
      /\ l = IF f \in Planar THEN s \div 2 ELSE s
      /\ f \in Planar => n = 2
  <2>1. n \in {1, 2} /\ i.xsub = 2 /\ i.chroma_stride = (IF f \in Planar THEN 1 ELSE 2) /\ (f \in Planar => n = 2)
    BY FormatInfo DEF SemiPlanar, Planar
  <2> HIDE DEF i
  <2>2. QED
    BY <2>1 DEF ChromaLine
<1>2. p[0] = 0 /\ (f \in SemiPlanar => p[1] = s * h) /\ s * h \in Nat /\ l \in Nat
  BY <1>1, PlaneOffsets
<1>3. q.y = 0 /\ \A k \in {"u", "v"} : q[k] \in Nat
  <2>1. CASE f \in Planar
    BY <2>1, PlanarPlanes
  <2>2. CASE f \in SemiPlanar
    <3>1. q.y = p[0]
      BY <2>2 DEF PlanesOf, SemiPlanes
    <3> HIDE DEF p
    <3>2. \A k \in {"u", "v"} : q[k] = p[1] + UvOrder(f)[k] /\ UvOrder(f)[k] \in 0 .. 1
      BY <1>2, <2>2, ChromaOrder
    <3>3. QED
      BY <1>2, <2>2, <3>1, <3>2
  <2>3. QED
    BY <2>1, <2>2
<1>4. \A x \in Nat : \A y : Scanned(b, "Y", x, y) = y * s + x
  BY DEF Scanned, Packed, SemiPlanar, Planar, Rgb, RgbBytes
<1>5. \A k \in {"u", "v"}, x \in Nat, y \in Nat :
        Scanned(b, k, x, y) = q[k] + (y \div n) * l + ChromaAt(i, x)
  <2>1. f \notin Packed /\ f \notin Rgb
    BY DEF Packed, SemiPlanar, Planar, Rgb, RgbBytes
  <2>2. ASSUME NEW k \in {"u", "v"}, NEW x \in Nat, NEW y \in Nat
        PROVE  Scanned(b, k, x, y) = q[k] + (y \div n) * l + ChromaAt(i, x)
    <3>1. CASE f \in Planar
      <4>1. Scanned(b, k, x, y) = p[UvPlane(f)[k]] + (y \div 2) * (s \div 2) + x \div 2
        BY <2>1, <3>1 DEF Scanned
      <4>2. q[k] = p[UvPlane(f)[k]]
        BY <3>1, PlanarPlanes
      <4>3. ChromaAt(i, x) = x \div 2
        BY <3>1, FormatInfo DEF ChromaAt
      <4> HIDE DEF p, q, i, l
      <4>4. QED
        BY <1>1, <3>1, <4>1, <4>2, <4>3
    <3>2. CASE f \in SemiPlanar
      <4>1. f \notin Planar
        BY <3>2 DEF Planar, SemiPlanar
      <4>2. Scanned(b, k, x, y) = p[1] + (y \div n) * s + 2 * (x \div 2) + UvOrder(f)[k]
        BY <2>1, <4>1 DEF Scanned
      <4>3. ChromaAt(i, x) = 2 * (x \div 2)
        BY <3>2, FormatInfo DEF ChromaAt
      <4> HIDE DEF p, i, l
      <4>4. q[k] = p[1] + UvOrder(f)[k] /\ UvOrder(f)[k] \in 0 .. 1 /\ p[1] \in Nat
        BY <1>2, <3>2, ChromaOrder
      <4> HIDE DEF q
      <4>5. (y \div n) * s \in Nat /\ 2 * (x \div 2) \in Nat
        <5>1. y \div n \in Nat
          BY <1>1
        <5>2. QED
          BY <5>1
      <4>6. l = s
        BY <1>1, <4>1
      <4>7. QED
        BY <4>2, <4>3, <4>4, <4>5, <4>6
    <3>3. QED
      BY <3>1, <3>2
  <2>3. QED
    BY <2>2
<1>6. \A x \in Nat : ChromaAt(i, x) \in Nat /\ ChromaAt(i, PairOf(x)) = ChromaAt(i, x) /\ PairOf(x) \in Nat
  <2> HIDE DEF i
  <2>1. ASSUME NEW x \in Nat
        PROVE  ChromaAt(i, x) \in Nat /\ ChromaAt(i, PairOf(x)) = ChromaAt(i, x) /\ PairOf(x) \in Nat
    <3>1. PairOf(x) \in Nat /\ PairOf(x) \div 2 = x \div 2
      BY DEF PairOf
    <3>2. QED
      BY <1>1, <3>1 DEF ChromaAt
  <2>2. QED
    BY <2>1
<1>7. \A x \in Columns(w) : x \in Nat /\ PairOf(x) \in Pairs(w)
  BY PairOfColumn DEF Columns
<1>8. \A y \in Rows(h) : y \in Nat /\ y \div n \in Nat /\ (y \div n \in Rows(h \div n) \/ y \div n = h \div n)
  <2> HIDE DEF n
  <2>1. QED
    BY <1>1 DEF Rows
<1>9. \A y \in Rows(h \div n) : y \in Nat /\ y * n \in Nat /\ (y * n) \div n = y
  <2> HIDE DEF n
  <2>1. QED
    BY <1>1 DEF Rows
<1>10. Pairs(w) \subseteq Columns(w)
  BY DEF Pairs
<1>11. \A y \in Nat : (y \div n) * n \in Nat /\ ((y \div n) * n) \div n = y \div n
  <2> HIDE DEF n
  <2>1. QED
    BY <1>1
<1>12. \A y \in Nat : y * s \in Nat /\ y * l \in Nat
  BY <1>2
<1> HIDE DEF i, p, q, n, l
\* A chroma write on line y of its plane.
<1>13. ASSUME NEW k \in {"u", "v"}, NEW x \in Columns(w), NEW y \in Nat, NEW z \in Nat, z \div n = y
       PROVE  /\ q[k] + y * ChromaLine(i, s) + ChromaAt(i, x) = Scanned(b, k, x, z)
              /\ q[k] + y * ChromaLine(i, s) + ChromaAt(i, x) \in Int
  <2>1. Scanned(b, k, x, z) = q[k] + y * l + ChromaAt(i, x)
    BY <1>5, <1>7, <1>13
  <2>2. q[k] \in Nat /\ y * l \in Nat /\ ChromaAt(i, x) \in Nat
    BY <1>3, <1>6, <1>7, <1>12
  <2>3. QED
    BY <2>1, <2>2 DEF l
<1>14. CASE b.pattern = "smpte" /\ writes = fill_smpte_yuv_planar(i, q, w, h, s)
  <2> DEFINE Luma(x, y) == Put(q.y + y * s + x, "Y", x, y, SmpteColor(x, y, w, h))
             Chroma(k, x, y) == Put(q[k] + y * ChromaLine(i, s) + ChromaAt(i, x), k, x, y, SmpteColor(x, y, w, h \div n))
  <2>1. writes = {Luma(x, y) : x \in Columns(w), y \in Rows(h)}
                 \cup UNION {{Chroma(k, x, y) : x \in Pairs(w), y \in Rows(h \div n)} : k \in {"u", "v"}}
    BY <1>14 DEF fill_smpte_yuv_planar, n
  <2>2. \A x, y : Luma(x, y).at = q.y + y * s + x /\ Luma(x, y).kind = "Y" /\ Luma(x, y).x = x /\ Luma(x, y).y = y
    BY DEF Put
  <2>3. \A k, x, y : /\ Chroma(k, x, y).at = q[k] + y * ChromaLine(i, s) + ChromaAt(i, x)
                     /\ Chroma(k, x, y).kind = k /\ Chroma(k, x, y).x = x /\ Chroma(k, x, y).y = y
    BY DEF Put
  <2> HIDE DEF Luma, Chroma
  <2>4. ASSUME NEW wr \in writes
        PROVE  wr.at \in Int /\ wr.at = Scanned(b, wr.kind, wr.x, IF wr.kind # "Y" THEN wr.y * n ELSE wr.y)
    <3>1. CASE \E x \in Columns(w), y \in Rows(h) : wr = Luma(x, y)
      <4>1. PICK x \in Columns(w), y \in Rows(h) : wr = Luma(x, y)
        BY <3>1
      <4>2. wr.at = y * s + x /\ wr.kind = "Y" /\ wr.x = x /\ wr.y = y /\ x \in Nat /\ y * s \in Nat
        BY <1>3, <1>7, <1>8, <1>12, <2>2, <4>1
      <4>3. QED
        BY <1>4, <4>2
    <3>2. CASE \E k \in {"u", "v"} : \E x \in Pairs(w), y \in Rows(h \div n) : wr = Chroma(k, x, y)
      <4>1. PICK k \in {"u", "v"} : \E x \in Pairs(w), y \in Rows(h \div n) : wr = Chroma(k, x, y)
        BY <3>2
      <4>2. PICK x \in Pairs(w), y \in Rows(h \div n) : wr = Chroma(k, x, y)
        BY <4>1
      <4>3. wr.kind = k /\ k # "Y" /\ wr.x = x /\ wr.y = y /\ x \in Columns(w)
            /\ y \in Nat /\ y * n \in Nat /\ (y * n) \div n = y
        BY <1>9, <1>10, <2>3, <4>2
      <4>4. wr.at = Scanned(b, k, x, y * n) /\ wr.at \in Int
        BY <1>13, <2>3, <4>2, <4>3
      <4>5. QED
        BY <4>3, <4>4
    <3>3. QED
      BY <2>1, <3>1, <3>2
  <2>5. ASSUME NEW k \in {"Y", "u", "v"}, NEW x \in Columns(w), NEW y \in Rows(h)
        PROVE  (\E wr \in writes : wr.at = Scanned(b, k, x, y)) \/ (k # "Y" /\ y \div n = h \div n)
    <3>1. CASE k = "Y"
      <4>1. Luma(x, y) \in writes
        BY <2>1
      <4>2. Luma(x, y).at = Scanned(b, "Y", x, y)
        BY <1>3, <1>4, <1>7, <1>8, <1>12, <2>2
      <4>3. QED
        BY <3>1, <4>1, <4>2
    <3>2. CASE k \in {"u", "v"} /\ y \div n \in Rows(h \div n)
      <4>1. Chroma(k, PairOf(x), y \div n) \in writes
        BY <1>7, <2>1, <3>2
      <4>2. Chroma(k, PairOf(x), y \div n).at = Scanned(b, k, PairOf(x), y)
        BY <1>7, <1>8, <1>10, <1>13, <2>3, <3>2
      <4>3. Scanned(b, k, PairOf(x), y) = Scanned(b, k, x, y)
        BY <1>5, <1>6, <1>7, <1>8, <3>2
      <4>4. QED
        BY <4>1, <4>2, <4>3
    <3>3. QED
      BY <1>8, <3>1, <3>2
  <2>6. QED
    BY <1>14, <2>4, <2>5 DEF n, i
<1>15. CASE b.pattern = "tiles" /\ writes = fill_tiles_yuv_planar(i, q, w, h, s)
  <2> DEFINE Luma(x, y) == Put(q.y + y * s + x, "Y", x, y, TileColor(x, y, w))
             Chroma(k, x, y) == Put(q[k] + (y \div n) * ChromaLine(i, s) + ChromaAt(i, x), k, x, y \div n, TileColor(x, y, w))
  <2>1. writes = {Luma(x, y) : x \in Columns(w), y \in Rows(h)}
                 \cup {Chroma(k, x, y) : x \in Columns(w), y \in Rows(h), k \in {"u", "v"}}
    BY <1>15 DEF fill_tiles_yuv_planar, n
  <2>2. \A x, y : Luma(x, y).at = q.y + y * s + x /\ Luma(x, y).kind = "Y" /\ Luma(x, y).x = x /\ Luma(x, y).y = y
    BY DEF Put
  <2>3. \A k, x, y : /\ Chroma(k, x, y).at = q[k] + (y \div n) * ChromaLine(i, s) + ChromaAt(i, x)
                     /\ Chroma(k, x, y).kind = k /\ Chroma(k, x, y).x = x /\ Chroma(k, x, y).y = y \div n
    BY DEF Put
  <2> HIDE DEF Luma, Chroma
  <2>4. ASSUME NEW wr \in writes
        PROVE  wr.at \in Int /\ wr.at = Scanned(b, wr.kind, wr.x, IF wr.kind # "Y" THEN wr.y * n ELSE wr.y)
    <3>1. CASE \E x \in Columns(w), y \in Rows(h) : wr = Luma(x, y)
      <4>1. PICK x \in Columns(w), y \in Rows(h) : wr = Luma(x, y)
        BY <3>1
      <4>2. wr.at = y * s + x /\ wr.kind = "Y" /\ wr.x = x /\ wr.y = y /\ x \in Nat /\ y * s \in Nat
        BY <1>3, <1>7, <1>8, <1>12, <2>2, <4>1
      <4>3. QED
        BY <1>4, <4>2
    <3>2. CASE \E x \in Columns(w), y \in Rows(h), k \in {"u", "v"} : wr = Chroma(k, x, y)
      <4>1. PICK x \in Columns(w), y \in Rows(h), k \in {"u", "v"} : wr = Chroma(k, x, y)
        BY <3>2
      <4>2. /\ wr.kind = k /\ k # "Y" /\ wr.x = x /\ wr.y = y \div n /\ y \div n \in Nat
            /\ ((y \div n) * n) \div n = y \div n /\ (y \div n) * n \in Nat
        BY <1>8, <1>11, <2>3, <4>1
      <4>3. wr.at = Scanned(b, k, x, (y \div n) * n) /\ wr.at \in Int
        BY <1>13, <2>3, <4>1, <4>2
      <4>4. QED
        BY <4>2, <4>3
    <3>3. QED
      BY <2>1, <3>1, <3>2
  <2>5. ASSUME NEW k \in {"Y", "u", "v"}, NEW x \in Columns(w), NEW y \in Rows(h)
        PROVE  \E wr \in writes : wr.at = Scanned(b, k, x, y)
    <3>1. CASE k = "Y"
      <4>1. Luma(x, y) \in writes
        BY <2>1
      <4>2. Luma(x, y).at = Scanned(b, "Y", x, y)
        BY <1>3, <1>4, <1>7, <1>8, <1>12, <2>2
      <4>3. QED
        BY <3>1, <4>1, <4>2
    <3>2. CASE k \in {"u", "v"}
      <4>1. Chroma(k, x, y) \in writes
        BY <2>1, <3>2
      <4>2. Chroma(k, x, y).at = Scanned(b, k, x, y)
        BY <1>8, <1>13, <2>3, <3>2
      <4>3. QED
        BY <4>1, <4>2
    <3>3. QED
      BY <3>1, <3>2
  <2>6. QED
    BY <2>4, <2>5 DEF n, i
<1>16. QED
  BY <1>14, <1>15 DEF i, q, p

LEMMA QuotientBelow ==
  ASSUME NEW a \in Nat, NEW b \in Nat \ {0}, NEW k \in Nat, a < k * b
  PROVE  a \div b \in 0 .. k - 1
OBVIOUS

\* The colours of the SMPTE bars stay within the tables, unless the fill
\* divides by zero.
LEMMA BarsInTable ==
  ASSUME NEW w \in Nat, NEW x \in Columns(w), NEW y, NEW h, ~DividesByZero(w)
  PROVE  SmpteColor(x, y, w, h)[2] \in 0 .. (IF SmpteColor(x, y, w, h)[1] = "bottom" THEN 7 ELSE 6)
<1>1. TopBar(x, w) \in 0 .. 6
  <2>1. x * 7 \in Nat /\ w \in Nat \ {0} /\ x * 7 < 7 * w
    BY DEF Columns
  <2>2. QED
    BY <2>1, QuotientBelow DEF TopBar
<1>2. BottomBar(x, w) \in 0 .. 7
  <2> DEFINE five == (w * 5) \div 7
             six == (w * 6) \div 7
             one == w \div 7
  <2>1. five \in Nat /\ six \in Nat /\ one \in Nat /\ six - five <= one + 1 /\ x \in Nat
    BY DEF Columns
  <2>2. one # 0 \/ five >= six
    BY <2>1 DEF DividesByZero
  <2>3. BottomBar(x, w) = IF x < five THEN (x * 4) \div five
                          ELSE IF x < six THEN ((x - five) * 3) \div one + 4 ELSE 7
    BY DEF BottomBar
  <2> HIDE DEF five, six, one
  <2>4. CASE x < five
    <3>1. five \in Nat \ {0} /\ x * 4 \in Nat /\ x * 4 < 4 * five
      BY <2>1, <2>4
    <3>2. (x * 4) \div five \in 0 .. 3
      BY <3>1, QuotientBelow
    <3>3. QED
      BY <2>3, <2>4, <3>2
  <2>5. CASE ~(x < five) /\ x < six
    <3>1. one \in Nat \ {0} /\ (x - five) * 3 \in Nat /\ (x - five) * 3 < 4 * one
      BY <2>1, <2>2, <2>5
    <3>2. ((x - five) * 3) \div one \in 0 .. 3
      BY <3>1, QuotientBelow
    <3>3. QED
      BY <2>3, <2>5, <3>2
  <2>6. CASE ~(x < five) /\ ~(x < six)
    BY <2>3, <2>6
  <2>7. QED
    BY <2>4, <2>5, <2>6
<1>3. QED
  BY <1>1, <1>2 DEF SmpteColor

LEMMA BarsColoured ==
  ASSUME NEW w \in Nat, ~DividesByZero(w), NEW f, NEW p, NEW h, NEW s, NEW wr \in fill_smpte(f, p, w, h, s)
  PROVE  wr.color[2] \in 0 .. (IF wr.color[1] = "bottom" THEN 7 ELSE 6)
<1>1. \E x \in Columns(w) : \E y, hh : wr.color = SmpteColor(x, y, w, hh)
  <2>1. CASE f \in Packed
    BY <2>1 DEF fill_smpte, fill_smpte_yuv_packed, Put, Pairs
  <2>2. CASE f \notin Packed /\ f \in Rgb
    BY <2>2 DEF fill_smpte, fill_smpte_rgb, Put
  <2>3. CASE f \notin Packed /\ f \notin Rgb
    <3> DEFINE i == YuvInfo[f]
               q == PlanesOf(f, p)
    <3>1. wr \in fill_smpte_yuv_planar(i, q, w, h, s)
      BY <2>3 DEF fill_smpte
    <3> HIDE DEF i, q
    <3>2. CASE \E x \in Columns(w), y \in Rows(h) : wr = Put(q.y + y * s + x, "Y", x, y, SmpteColor(x, y, w, h))
      BY <3>2 DEF Put
    <3>3. CASE \E k \in {"u", "v"} : \E x \in Pairs(w), y \in Rows(h \div i.ysub) :
                 wr = Put(q[k] + y * ChromaLine(i, s) + ChromaAt(i, x), k, x, y, SmpteColor(x, y, w, h \div i.ysub))
      <4>1. PICK k \in {"u", "v"} : \E x \in Pairs(w), y \in Rows(h \div i.ysub) :
                 wr = Put(q[k] + y * ChromaLine(i, s) + ChromaAt(i, x), k, x, y, SmpteColor(x, y, w, h \div i.ysub))
        BY <3>3
      <4>2. PICK x \in Pairs(w) : \E y \in Rows(h \div i.ysub) :
                 wr = Put(q[k] + y * ChromaLine(i, s) + ChromaAt(i, x), k, x, y, SmpteColor(x, y, w, h \div i.ysub))
        BY <4>1
      <4>3. x \in Columns(w) /\ \E y : wr.color = SmpteColor(x, y, w, h \div i.ysub)
        BY <4>2 DEF Put, Pairs
      <4>4. QED
        BY <4>3
    <3>4. QED
      BY <3>1, <3>2, <3>3 DEF fill_smpte_yuv_planar
  <2>4. QED
    BY <2>1, <2>2, <2>3
<1>2. QED
  BY <1>1, BarsInTable

\* Whatever the size, odd or even, the pitch and the known format, a fill in tiles or
\* bars writes every component of every pixel exactly where the display controller
\* looks for it, in colours of the tables; only the chroma of the last line of bars of
\* an odd height is not written (the fill_smpte and fill_tiles functions, against
\* drm_fourcc.h; fill_plain draws no image).
THEOREM DrmFillDrawsImage == Spec => []FillDrawsImage
<1>1. BufInv => FillDrawsImage
  <2> DEFINE f == buf.format
             w == buf.width
             h == buf.height
             s == buf.pitch
             p == Offsets(f, s, h)
             row(wr) == IF f \in SemiPlanar \cup Planar /\ wr.kind # "Y" THEN wr.y * YuvInfo[f].ysub ELSE wr.y
             bytes == IF f \in Rgb THEN 0 .. RgbBytes[f] - 1 ELSE {0}
  <2>1. SUFFICES ASSUME BufInv, Filled, f \in Known, buf.pattern # "plain"
                 PROVE  /\ \A wr \in buf.writes :
                             /\ wr.at - Scanned(buf, wr.kind, wr.x, row(wr)) \in bytes
                             /\ buf.pattern = "smpte" => wr.color[2] \in 0 .. (IF wr.color[1] = "bottom" THEN 7 ELSE 6)
                        /\ \A k \in Components(f), x \in Columns(w), y \in Rows(h) :
                             (\E wr \in buf.writes : wr.at = Scanned(buf, k, x, y)) \/ Undrawn(k, y)
    BY DEF FillDrawsImage
  <2>2. /\ w \in Nat /\ h \in Nat /\ s \in Nat /\ s >= 4 * w
        /\ buf.pattern \in {"tiles", "smpte"} /\ buf.offsets = p
        /\ ~(buf.pattern = "smpte" /\ DividesByZero(w))
    BY <2>1 DEF BufInv, Filled
  <2>3. buf.writes = fill_pattern(f, buf.pattern, p, w, h, s)
    BY <2>1, <2>2 DEF BufInv, Filled
  <2>d. buf.format = f /\ buf.pitch = s /\ buf.height = h
    OBVIOUS
  <2> HIDE DEF f, w, h, s
  <2>w. \/ buf.pattern = "tiles" /\ buf.writes = fill_tiles(f, p, w, h, s)
        \/ buf.pattern = "smpte" /\ buf.writes = fill_smpte(f, p, w, h, s)
    BY <2>1, <2>2, <2>3 DEF fill_pattern
  <2>4. ASSUME buf.pattern = "smpte", NEW wr \in buf.writes
        PROVE  wr.color[2] \in 0 .. (IF wr.color[1] = "bottom" THEN 7 ELSE 6)
    BY <2>2, <2>w, <2>4, BarsColoured
  <2>5. CASE f \in Packed
    <3>1. \/ buf.writes = fill_smpte_yuv_packed(YuvInfo[f], w, h, s)
          \/ buf.writes = fill_tiles_yuv_packed(YuvInfo[f], w, h, s)
      BY <2>w, <2>5 DEF fill_smpte, fill_tiles
    <3>2. /\ \A wr \in buf.writes : wr.at = Scanned(buf, wr.kind, wr.x, wr.y)
          /\ \A k \in {"Y", "u", "v"}, x \in Columns(w), y \in Rows(h) :
               \E wr \in buf.writes : wr.at = Scanned(buf, k, x, y)
      BY <2>2, <2>d, <2>5, <3>1, PackedDrawn
    <3>3. f \notin SemiPlanar \cup Planar /\ f \notin Rgb /\ Components(f) = {"Y", "u", "v"}
      BY <2>5 DEF Packed, SemiPlanar, Planar, Rgb, RgbBytes, Components
    <3>4. ASSUME NEW wr \in buf.writes PROVE wr.at - Scanned(buf, wr.kind, wr.x, row(wr)) \in bytes
      <4>1. row(wr) = wr.y /\ bytes = {0}
        BY <3>3
      <4>2. wr.at \in Int
        <5>1. wr.at \in 0 .. s * h - 1
          BY <2>2, <3>1, PackedInside
        <5>2. QED
          BY <5>1
      <4>3. wr.at = Scanned(buf, wr.kind, wr.x, row(wr))
        BY <3>2, <4>1
      <4> HIDE DEF bytes, row
      <4>4. QED
        BY <4>1, <4>2, <4>3
    <3>5. QED
      BY <2>4, <3>2, <3>3, <3>4
  <2>6. CASE f \in Rgb
    <3>1. f \notin SemiPlanar \cup Planar /\ f \notin Packed /\ Components(f) = {"RGB"} /\ bytes = 0 .. RgbBytes[f] - 1
      BY <2>6 DEF Packed, SemiPlanar, Planar, Rgb, RgbBytes, Components
    <3>2. \/ buf.writes = fill_smpte_rgb(RgbBytes[f], w, h, s)
          \/ buf.writes = fill_tiles_rgb(RgbBytes[f], w, h, s)
      BY <2>w, <2>6, <3>1 DEF fill_smpte, fill_tiles
    <3>3. /\ \A wr \in buf.writes : wr.at - Scanned(buf, wr.kind, wr.x, wr.y) \in 0 .. RgbBytes[f] - 1
          /\ \A x \in Columns(w), y \in Rows(h) : \E wr \in buf.writes : wr.at = Scanned(buf, "RGB", x, y)
      BY <2>2, <2>d, <2>6, <3>2, RgbDrawn
    <3>4. \A wr \in buf.writes : wr.at - Scanned(buf, wr.kind, wr.x, row(wr)) \in bytes
      BY <3>1, <3>3
    <3>5. QED
      BY <2>4, <3>1, <3>3, <3>4
  <2>7. CASE f \in SemiPlanar \cup Planar
    <3>1. f \notin Packed /\ f \notin Rgb /\ Components(f) = {"Y", "u", "v"} /\ bytes = {0}
      BY <2>7 DEF Packed, SemiPlanar, Planar, Rgb, RgbBytes, Components
    <3>2. \/ buf.pattern = "smpte" /\ buf.writes = fill_smpte_yuv_planar(YuvInfo[f], PlanesOf(f, p), w, h, s)
          \/ buf.pattern = "tiles" /\ buf.writes = fill_tiles_yuv_planar(YuvInfo[f], PlanesOf(f, p), w, h, s)
      BY <2>w, <3>1 DEF fill_smpte, fill_tiles
    <3>3. /\ \A wr \in buf.writes :
               /\ wr.at \in Int
               /\ wr.at = Scanned(buf, wr.kind, wr.x, IF wr.kind # "Y" THEN wr.y * YuvInfo[f].ysub ELSE wr.y)
          /\ \A k \in {"Y", "u", "v"}, x \in Columns(w), y \in Rows(h) :
               \/ \E wr \in buf.writes : wr.at = Scanned(buf, k, x, y)
               \/ buf.pattern = "smpte" /\ k # "Y" /\ y \div YuvInfo[f].ysub = h \div YuvInfo[f].ysub
      BY <2>2, <2>d, <2>7, <3>2, PlanesDrawn
    <3>4. ASSUME NEW wr \in buf.writes PROVE wr.at - Scanned(buf, wr.kind, wr.x, row(wr)) \in bytes
      <4>1. row(wr) = IF wr.kind # "Y" THEN wr.y * YuvInfo[f].ysub ELSE wr.y
        BY <2>7
      <4>2. wr.at \in Int /\ wr.at = Scanned(buf, wr.kind, wr.x, row(wr))
        BY <3>3, <4>1
      <4> HIDE DEF bytes, row
      <4>3. QED
        BY <3>1, <4>2
    <3>5. ASSUME NEW k \in Components(f), NEW x \in Columns(w), NEW y \in Rows(h)
          PROVE  (\E wr \in buf.writes : wr.at = Scanned(buf, k, x, y)) \/ Undrawn(k, y)
      BY <2>d, <2>7, <3>1, <3>3 DEF Undrawn
    <3>6. QED
      BY <2>4, <3>4, <3>5
  <2>8. f \in Packed \/ f \in Rgb \/ f \in SemiPlanar \cup Planar
    BY <2>1 DEF Known
  <2> HIDE DEF bytes, row, p
  <2>9. QED
    BY <2>5, <2>6, <2>7, <2>8
<1>2. QED
  BY <1>1, BufAlways, PTL

=============================================================================
