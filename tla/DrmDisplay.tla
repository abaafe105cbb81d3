----------------------------- MODULE DrmDisplay -----------------------------
(***************************************************************************)
(* drm_clone, drm_extended and drm_z_alpha: each looks up its displays in  *)
(* the DRM resources, attaches overlay planes and CRTCs to test buffers,   *)
(* waits for a key and undoes the set-up.  drm_clone.c and drm_extended.c  *)
(* have the same functions, but for the last (the HDMI display's image).   *)
(* The kernel's mode setting (routes, images, planes) is external.         *)
(***************************************************************************)
EXTENDS TestBuffer, Sequences

CONSTANTS
  Boards,     \* the DRM resources that a program may find
  Lines       \* command lines: [app, lcd, hdmi, plane, ...]

\* Every program reads the first CRTC unasked (res->crtcs[0]); what is assigned in
\* the resources is among them; sizes are read by strtoul.
ASSUME BoardsAssumption ==
  \A b \in Boards :
    /\ b.crtcs \in Seq(Nat \ {0}) /\ b.crtcs # <<>>
    /\ b.connectors \in Seq([type : STRING, live : BOOLEAN, encs : SUBSET Nat, enc : Nat,
                             modes : SUBSET (Nat \X Nat)])
    /\ \A c \in DOMAIN b.connectors : b.connectors[c].enc \in {0} \cup DOMAIN b.encoders
    /\ \A e \in DOMAIN b.encoders : b.encoders[e].crtc \in {0} \cup {b.crtcs[k] : k \in DOMAIN b.crtcs}
ASSUME LinesAssumption ==
  \A l \in Lines :
    /\ l.app \in {"clone", "extended", "zalpha", "direct"} /\ l.lcd \in Nat \X Nat
    /\ l.app \in {"clone", "extended"} => l.hdmi \in Nat \X Nat /\ l.plane \in Nat \X Nat
    /\ l.app = "direct" => l.pattern \in {"tiles", "smpte", "plain"}

VARIABLES
  pc,         \* the step the program is at
  board,      \* what drmModeGetResources and the like report at the start
  line,       \* the command line
  dev,        \* struct device: connectors, encoders' CRTCs, planes; and where (at) and why it failed
  kms         \* the kernel: routes, images, planes, properties

vars == <<pc, board, line, dev, kms, buf>>

-----------------------------------------------------------------------------
(* The kernel. *)

Off == 0
Connectors == DOMAIN board.connectors
Encoder(e) == board.encoders[e]
CrtcAt(k) == board.crtcs[k]
Crtcs == {CrtcAt(k) : k \in DOMAIN board.crtcs}

\* What is on the screen of connector c.
Shown(k, c) == IF k.route[c] = Off THEN "nothing" ELSE k.image[k.route[c]]

DefaultProps == <<0, 255, 0>>
Initially(b) ==
  LET route == [c \in DOMAIN b.connectors |->
                  IF b.connectors[c].enc = Off THEN Off ELSE b.encoders[b.connectors[c].enc].crtc]
  IN [route |-> route,
      image |-> [x \in {b.crtcs[k] : k \in DOMAIN b.crtcs} |->
                   IF \A c \in DOMAIN route : route[c] # x THEN "nothing"
                   ELSE IF x = b.crtcs[1] THEN "first" ELSE "other"],
      plane |-> [p \in DOMAIN b.planes |-> [crtc |-> b.planes[p].crtc, fb |-> "other"]],
      props |-> [p \in DOMAIN b.planes |-> DefaultProps]]

\* drmModeSetCrtc moves a connector to a CRTC, which loses the ones it had; a
\* CRTC left without a connector is switched off.
CanSetCrtc(x, fb, c) ==
  /\ x \in Crtcs /\ fb # "nothing"
  /\ \E e \in board.connectors[c].encs : e \in DOMAIN board.encoders /\ x \in Encoder(e).possible
SetCrtc(k, x, fb, c) ==
  LET route == [d \in Connectors |-> IF d = c THEN x ELSE IF k.route[d] = x THEN Off ELSE k.route[d]]
  IN [k EXCEPT !.route = route,
               !.image = [y \in Crtcs |-> IF y = x THEN fb
                                          ELSE IF \E d \in Connectors : route[d] = y THEN k.image[y]
                                          ELSE "nothing"]]

CanSetPlane(p, x) == p \in DOMAIN board.planes /\ x \in board.planes[p].possible

\* drmModeRmFB switches off whatever shows the framebuffer; closing the device
\* does so with every framebuffer that the program has not removed.
RmFB(k, fbs) ==
  LET image == [x \in Crtcs |-> IF k.image[x] \in fbs THEN "nothing" ELSE k.image[x]]
  IN [k EXCEPT !.image = image,
               !.route = [c \in Connectors |->
                            IF k.route[c] # Off /\ k.image[k.route[c]] \in fbs THEN Off ELSE k.route[c]],
               !.plane = [p \in DOMAIN k.plane |->
                            IF k.plane[p].fb \in fbs THEN [crtc |-> Off, fb |-> "none"] ELSE k.plane[p]]]
Framebuffers == {"plane1", "plane2", "lcd", "hdmi"}

-----------------------------------------------------------------------------
(* Looking the displays up. *)

Exit(why) ==
  /\ pc' = "exit"
  /\ dev' = [dev EXCEPT !.at = pc, !.why = why]
  /\ kms' = RmFB(kms, Framebuffers)
  /\ UNCHANGED <<board, line, buf>>

Goto(step, d) == pc' = step /\ dev' = d /\ UNCHANGED <<board, line, kms, buf>>

Clonelike == line.app \in {"clone", "extended"}

NoDevice == [lcd |-> 0, hdmi |-> 0, lcdCrtc |-> Off, hdmiCrtc |-> Off, plane |-> 0, oid |-> "nothing",
             at |-> "", why |-> ""]

\* main: the command line (usage exits), the device, the resources and the buffer that the
\* first CRTC shows.  fd is unsigned, so a failed open goes unnoticed until
\* drmModeGetResources fails.
Open ==
  /\ pc = "open"
  /\ \/ Goto("connector", [dev EXCEPT !.oid = kms.image[CrtcAt(1)]])
     \/ Exit("no_device")

Live(c, type) == LET con == board.connectors[c] IN con.live /\ (con.type = "hdmi") = (type = "hdmi")
SeenBy(n, type) == {c \in 1 .. n : Live(c, type)}
Latest(S) == CHOOSE x \in S : \A y \in S : y <= x
First(S) == CHOOSE x \in S : \A y \in S : x <= y

\* Connectors are gone through until both kinds have been met; the last one of
\* a kind counts.
GetConnectors ==
  /\ pc = "connector" /\ Clonelike
  /\ LET enough == {n \in Connectors : SeenBy(n, "lcd") # {} /\ SeenBy(n, "hdmi") # {}}
     IN IF enough = {} THEN Exit("no_connector")
        ELSE Goto("encoder", [dev EXCEPT !.lcd = Latest(SeenBy(First(enough), "lcd")),
                                         !.hdmi = Latest(SeenBy(First(enough), "hdmi"))])

\* drm_z_alpha: the first live connector.
GetConnector ==
  /\ pc = "connector" /\ ~Clonelike
  /\ LET live == {c \in Connectors : board.connectors[c].live}
     IN IF live = {} THEN Exit("no_connector") ELSE Goto("encoder", [dev EXCEPT !.lcd = First(live)])

\* The encoders of connector c that the scan accepts: those that can be read
\* and, if one is assigned, are that one.  Encoders are numbered in scan order.
Accepted(c) ==
  LET con == board.connectors[c]
  IN {e \in con.encs \cap DOMAIN board.encoders : con.enc \in {Off, e}}

\* An encoder's CRTC, or the first that it may have (Off if none).
CrtcOf(e) ==
  LET may == {k \in DOMAIN board.crtcs : CrtcAt(k) \in Encoder(e).possible}
  IN IF Encoder(e).crtc # Off THEN Encoder(e).crtc ELSE IF may = {} THEN Off ELSE CrtcAt(First(may))

GetLcdEncoder ==
  /\ pc = "encoder" /\ Clonelike
  /\ LET es == Accepted(dev.lcd)
     IN IF es = {} THEN Exit("no_encoder")
        ELSE IF CrtcOf(First(es)) = Off THEN Exit("no_crtc")
        ELSE Goto("hdmi_encoder", [dev EXCEPT !.lcdCrtc = CrtcOf(First(es))])

GetHdmiEncoder ==
  /\ pc = "hdmi_encoder"
  /\ LET es == Accepted(dev.hdmi)
     IN IF es = {} THEN Exit("no_encoder")
        ELSE IF CrtcOf(First(es)) = Off THEN Exit("no_crtc")
        ELSE Goto("mode", [dev EXCEPT !.hdmiCrtc = CrtcOf(First(es))])

\* drm_z_alpha compares the end of the scan with the number of all encoders,
\* not the connector's: when none is accepted it goes on with the encoder that
\* it freed last, whose CRTC may read as anything, or with a null pointer.
GetEncoder ==
  /\ pc = "encoder" /\ ~Clonelike
  /\ LET es == Accepted(dev.lcd)
     IN IF es # {} /\ CrtcOf(First(es)) = Off THEN Exit("no_crtc")
        ELSE IF es # {} THEN Goto("mode", [dev EXCEPT !.lcdCrtc = CrtcOf(First(es))])
        ELSE IF Cardinality(board.connectors[dev.lcd].encs) = board.count_encoders THEN Exit("no_encoder")
        ELSE \/ \E x \in Crtcs \cup {Off} : Goto("mode", [dev EXCEPT !.lcdCrtc = x, !.why = "freed_encoder"])
             \/ Exit("crashed")

GetLcdMode ==
  /\ pc = "mode"
  /\ IF line.lcd \in board.connectors[dev.lcd].modes
     THEN Goto(IF Clonelike THEN "hdmi_mode" ELSE "kms", dev) ELSE Exit("no_mode")

GetHdmiMode ==
  /\ pc = "hdmi_mode"
  /\ IF line.hdmi \in board.connectors[dev.hdmi].modes THEN Goto("plane", dev) ELSE Exit("no_mode")

\* pipe 0 is the first CRTC, whichever the LCD has.
FreePlane == {p \in DOMAIN board.planes : CrtcAt(1) \in board.planes[p].possible /\ board.planes[p].crtc = Off}

GetPlaneId ==
  /\ pc = "plane"
  /\ IF FreePlane = {} THEN Exit("no_plane") ELSE Goto("kms", [dev EXCEPT !.plane = First(FreePlane)])

KmsCreate ==
  /\ pc = "kms"
  /\ \/ Goto(IF Clonelike THEN "set_plane" ELSE "properties", dev)
     \/ Exit("no_kms")

-----------------------------------------------------------------------------
(* Showing the images. *)

\* set_z_order, set_global_alpha and set_pre_multiplied_alpha: the values of
\* the first -w if the plane is that one's, of the last -w otherwise.
ValuesFor(id) == IF id = line.w[1].id THEN line.w[1].values ELSE line.w[Len(line.w)].values

\* The results are unsigned, so a call that the kernel refuses (a value, a plane or
\* the property's fixed number, or any other failure) goes unnoticed.
Allowed == <<0 .. 3, 0 .. 255, 0 .. 1>>
Given(old, id, took) == [i \in 1 .. 3 |-> IF took[i] /\ ValuesFor(id)[i] \in Allowed[i] THEN ValuesFor(id)[i] ELSE old[i]]
SecondId == IF Len(line.w) > 1 THEN line.w[Len(line.w)].id ELSE 0
SetProperties ==
  /\ pc = "properties"
  /\ \E took \in [DOMAIN board.planes -> [1 .. 3 -> BOOLEAN]] :
        kms' = [kms EXCEPT !.props = [p \in DOMAIN board.planes |->
                  IF p \in {line.w[1].id, SecondId} THEN Given(kms.props[p], p, took[p]) ELSE kms.props[p]]]
  /\ pc' = "set_plane1"
  /\ UNCHANGED <<board, line, dev, buf>>

\* The steps that show an image: the buffer's format, size and pattern, what
\* shows it, and the step after it.
Step(f, size, pattern, fb, next) == [format |-> f, size |-> size, pattern |-> pattern, fb |-> fb, next |-> next]
SetPlaneStep == Step("rgb32", line.plane, "tiles", "plane1", "set_crtc")
SetCrtcStep == Step("rgb32", line.lcd, "smpte", "lcd", IF Clonelike THEN "set_hdmi" ELSE "shown")
SetExtendedStep == Step("rgb32", line.hdmi, "tiles", "hdmi", "shown")
SetPlane1Step == Step("rgb32", <<16, 12>>, "tiles", "plane1", "set_plane2")
SetPlane2Step == Step("rgb32", <<8, 6>>, "smpte", "plane2", "set_crtc")
Steps ==
  CASE pc = "set_plane" -> SetPlaneStep [] pc = "set_crtc" -> SetCrtcStep [] pc = "set_hdmi" -> SetExtendedStep
    [] pc = "set_plane1" -> SetPlane1Step [] pc = "set_plane2" -> SetPlane2Step

Drawing == {"set_plane", "set_crtc", "set_plane1", "set_plane2"} \cup (IF line.app = "extended" THEN {"set_hdmi"} ELSE {})

\* create_test_buffer is called and, step by step, executed.
Create ==
  /\ pc \in Drawing /\ buf.pc = "idle"
  /\ CallCreate(Steps.format, Steps.size[1], Steps.size[2], Steps.pattern)
  /\ UNCHANGED <<pc, board, line, dev, kms>>

Creating == buf.pc # "idle" /\ CreateTestBuffer /\ UNCHANGED <<pc, board, line, dev, kms>>

CreateFailed ==
  /\ pc \in Drawing /\ buf.pc \in {"null", "crashed"}
  /\ pc' = "exit" /\ buf' = NoBuffer
  /\ dev' = [dev EXCEPT !.at = pc, !.why = IF buf.pc = "null" THEN "no_buffer" ELSE "crashed"]
  /\ kms' = RmFB(kms, Framebuffers)
  /\ UNCHANGED <<board, line>>

PlaneUsed == CASE pc = "set_plane" -> dev.plane [] pc = "set_plane1" -> line.w[1].id [] pc = "set_plane2" -> SecondId

Advance(k, step) == kms' = k /\ pc' = step /\ buf' = NoBuffer /\ UNCHANGED <<board, line, dev>>
Refused(why) ==
  /\ pc' = "exit" /\ buf' = NoBuffer /\ kms' = RmFB(kms, Framebuffers)
  /\ dev' = [dev EXCEPT !.at = pc, !.why = why]
  /\ UNCHANGED <<board, line>>

\* drmModeAddFB2, given the entries that create_test_buffer left uninitialised
\* as well, may fail; then drmModeSetPlane.
SetPlane ==
  /\ pc \in {"set_plane", "set_plane1", "set_plane2"} /\ buf.pc = "done"
  /\ IF CanSetPlane(PlaneUsed, dev.lcdCrtc)
     THEN \/ Advance([kms EXCEPT !.plane[PlaneUsed] = [crtc |-> dev.lcdCrtc, fb |-> Steps.fb]], Steps.next)
          \/ Refused("failed")
     ELSE Refused("plane_refused")

SetLcdCrtc ==
  /\ pc = "set_crtc" /\ buf.pc = "done"
  /\ \/ /\ CanSetCrtc(dev.lcdCrtc, "lcd", dev.lcd)
        /\ Advance(SetCrtc(kms, dev.lcdCrtc, "lcd", dev.lcd), Steps.next)
     \/ Refused("failed")

\* set_clone_mode: the HDMI display shows the LCD's framebuffer.
SetCloneMode ==
  /\ pc = "set_hdmi" /\ line.app = "clone"
  /\ \/ /\ CanSetCrtc(dev.hdmiCrtc, "lcd", dev.hdmi)
        /\ Advance(SetCrtc(kms, dev.hdmiCrtc, "lcd", dev.hdmi), "shown")
     \/ Refused("failed")

\* Faulty variant: the HDMI display shows the LCD's framebuffer here too.
ExtendedImageShared == "lcd"
ExtendedImage == "hdmi"
SetExtendedMode ==
  /\ pc = "set_hdmi" /\ line.app = "extended" /\ buf.pc = "done"
  /\ \/ /\ CanSetCrtc(dev.hdmiCrtc, ExtendedImage, dev.hdmi)
        /\ Advance(SetCrtc(kms, dev.hdmiCrtc, ExtendedImage, dev.hdmi), "shown")
     \/ Refused("failed")

-----------------------------------------------------------------------------
(* Undoing the set-up: after a key, the image of the first CRTC goes to the  *)
(* LCD's CRTC, then the framebuffers go.  No result is looked at.            *)

\* Faulty variant: the framebuffers go first.
UndoneBackwards == <<"remove_hdmi", "remove_lcd", "restore", "remove_planes", "end">>
UndoOrder == <<"restore", "remove_hdmi", "remove_lcd", "remove_planes", "end">>
UndoNext == CASE pc = "shown" -> UndoOrder[1]
              [] OTHER -> UndoOrder[1 + CHOOSE i \in 1 .. 4 : UndoOrder[i] = pc]

Key == pc = "shown" /\ Goto(UndoNext, dev)

Restore ==
  /\ pc = "restore"
  /\ \/ CanSetCrtc(dev.lcdCrtc, dev.oid, dev.lcd) /\ Advance(SetCrtc(kms, dev.lcdCrtc, dev.oid, dev.lcd), UndoNext)
     \/ Goto(UndoNext, [dev EXCEPT !.at = pc])

\* drmModeRmFB may fail too; the device is closed last.
Remove ==
  /\ pc \in {"remove_hdmi", "remove_lcd", "remove_planes"}
  /\ \E gone \in {{}, CASE pc = "remove_lcd" -> {"lcd"} [] pc = "remove_hdmi" -> {"hdmi"}
                         [] pc = "remove_planes" -> {"plane1", "plane2"}} :
        Advance(RmFB(kms, IF UndoNext = "end" THEN Framebuffers ELSE gone), UndoNext)

\* Callers other than these programs use create_test_buffer with any format.
DirectDone ==
  /\ pc = "direct" /\ buf.pc \in {"done", "null", "crashed"}
  /\ pc' = "end" /\ buf' = NoBuffer
  /\ UNCHANGED <<board, line, dev, kms>>

Init ==
  /\ line \in Lines
  /\ board \in IF line.app = "direct" THEN {CHOOSE b \in Boards : TRUE} ELSE Boards
  /\ dev = NoDevice
  /\ kms = Initially(board)
  /\ IF line.app = "direct"
     THEN /\ pc = "direct"
          /\ buf = [pc |-> "alloc", format |-> line.format, pattern |-> line.pattern,
                    width |-> line.lcd[1], height |-> line.lcd[2]]
     ELSE pc = "open" /\ buf = NoBuffer

Look == Open \/ GetConnectors \/ GetConnector \/ GetLcdEncoder \/ GetHdmiEncoder \/ GetEncoder
        \/ GetLcdMode \/ GetHdmiMode \/ GetPlaneId \/ KmsCreate
Show == SetProperties \/ Create \/ Creating \/ CreateFailed \/ SetPlane \/ SetLcdCrtc \/ SetCloneMode \/ SetExtendedMode
Undo == Key \/ Restore \/ Remove \/ DirectDone
Next == Look \/ Show \/ Undo
Spec == Init /\ [][Next]_vars

-----------------------------------------------------------------------------
(* Properties. *)

\* The search for the HDMI encoder may give it the CRTC that the LCD has.
Apart == Clonelike => dev.lcdCrtc # dev.hdmiCrtc

\* Safety: while the images are shown, whatever calls went unnoticed, the LCD has its
\* picture with the overlays on it, and the HDMI display has the same picture (clone)
\* or its own (extended), which leaves the LCD dark if both were given one CRTC.  A
\* plane's property has the value of its own -w or the one it had, and no other
\* plane's property is touched.
DisplaysAsPromised ==
  pc = "shown" =>
    /\ Shown(kms, dev.lcd) = IF Apart THEN "lcd" ELSE "nothing"
    /\ line.app = "clone" => Shown(kms, dev.hdmi) = "lcd"
    /\ line.app = "extended" => Shown(kms, dev.hdmi) = "hdmi"
    /\ Clonelike => kms.plane[dev.plane] = [crtc |-> dev.lcdCrtc, fb |-> "plane1"]
    /\ line.app = "zalpha" /\ Len(line.w) = 2 /\ line.w[1].id # line.w[2].id =>
         /\ \A i \in 1 .. 2 :
              /\ kms.plane[line.w[i].id].crtc = kms.route[dev.lcd]
              /\ \A j \in 1 .. 3 :
                   kms.props[line.w[i].id][j] \in {DefaultProps[j]} \cup ({line.w[i].values[j]} \cap Allowed[j])
         /\ \A p \in DOMAIN board.planes \ {line.w[1].id, line.w[2].id} : kms.props[p] = DefaultProps

\* Safety: from when its image is up to the end the LCD is dark only if the displays
\* share a CRTC or the mode set that gives it the first CRTC's old picture failed; if
\* it did not fail the program ends with that picture on the LCD, and dark if it did.
\* A program that gives up leaves every display as it was, but for the LCD when it had
\* its image already: that one ends dark.  Nothing of the program stays on a display or a plane.
LcdRestored ==
  /\ pc \in {UndoOrder[i] : i \in 1 .. 5} \cup {"shown"} /\ line.app # "direct" /\ dev.at = "" /\ Apart =>
       Shown(kms, dev.lcd) # "nothing"
  /\ pc = "end" /\ line.app # "direct" => Shown(kms, dev.lcd) = IF dev.at = "" THEN dev.oid ELSE "nothing"
  /\ pc = "exit" =>
       IF dev.at = "set_hdmi" THEN Shown(kms, dev.lcd) = "nothing"
       ELSE \A c \in Connectors : Shown(kms, c) = Shown(Initially(board), c)
  /\ pc \in {"exit", "end"} /\ line.app # "direct" =>
       /\ \A c \in Connectors : Shown(kms, c) \notin Framebuffers
       /\ \A p \in DOMAIN kms.plane : kms.plane[p].fb \notin Framebuffers

=============================================================================
