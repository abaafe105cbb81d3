---------------------------- MODULE MCDrmDisplay ----------------------------
(***************************************************************************)
(* DrmDisplay for TLC: boards with up to three connectors in either order, *)
(* assigned encoders and CRTCs or not, planes for either CRTC; and every   *)
(* format, pattern and small size for create_test_buffer.                  *)
(***************************************************************************)
EXTENDS DrmDisplay, TLC

Con(type, live, encs, enc) == [type |-> type, live |-> live, encs |-> encs, enc |-> enc, modes |-> {<<7, 2>>, <<5, 2>>}]
Enc(possible, crtc) == [possible |-> possible, crtc |-> crtc]
Plane(possible, crtc) == [possible |-> possible, crtc |-> crtc]

\* Encoder 1 is the LCD's, encoder 2 the HDMI display's; an assigned CRTC comes
\* with an assigned encoder.
Layouts(l, h) ==
  {<<Con("lcd", TRUE, {1}, l), Con("hdmi", TRUE, {2}, h)>>,
   <<Con("hdmi", TRUE, {2}, h), Con("lcd", TRUE, {1}, l)>>,
   <<Con("hdmi", TRUE, {2}, h), Con("hdmi", FALSE, {2}, 0), Con("lcd", TRUE, {1}, l)>>,
   <<Con("lcd", TRUE, {1}, l), Con("lcd", TRUE, {3}, 0), Con("hdmi", TRUE, {2}, h)>>,
   <<Con("lcd", TRUE, {3}, 0), Con("hdmi", TRUE, {2, 3}, h)>>}

MCBoards ==
  UNION {{[crtcs |-> <<31, 32>>, connectors |-> cons, count_encoders |-> 3,
           encoders |-> (1 :> Enc(may, l)) @@ (2 :> Enc({31, 32}, h)),
           planes |-> planes]
            : cons \in Layouts(IF l = 0 THEN 0 ELSE 1, IF h = 0 THEN 0 ELSE 2),
              planes \in {<<Plane({31, 32}, 31), Plane({31}, 0)>>, <<Plane({32}, 0), Plane({31, 32}, 0)>>}}
         : <<may, l, h>> \in {x \in {{31}, {32}, {31, 32}} \X {0, 31, 32} \X {0, 31, 32} :
                                  x[2] \in x[1] \cup {0} /\ (x[2] = 0 \/ x[2] # x[3])}}

Formats == Known \cup {"unknown"}
MCLines ==
  [app : {"clone", "extended"}, lcd : {<<7, 2>>}, hdmi : {<<7, 2>>}, plane : {<<2, 1>>}]
  \cup {[app |-> "clone", lcd |-> <<5, 2>>, hdmi |-> <<9, 9>>, plane |-> <<2, 1>>],
        [app |-> "clone", lcd |-> <<5, 2>>, hdmi |-> <<7, 2>>, plane |-> <<2, 1>>]}
  \cup {[app |-> "zalpha", lcd |-> <<7, 2>>, w |-> w] :
          w \in {<<[id |-> 1, values |-> <<1, 255, 0>>], [id |-> 2, values |-> <<0, 127, 0>>]>>,
                 <<[id |-> 2, values |-> <<7, 127, 0>>], [id |-> 1, values |-> <<0, 300, 1>>]>>,
                 <<[id |-> 1, values |-> <<1, 255, 0>>]>>,
                 <<[id |-> 1, values |-> <<1, 255, 0>>], [id |-> 2, values |-> <<2, 2, 0>>], [id |-> 2, values |-> <<3, 255, 0>>]>>}}
  \cup [app : {"direct"}, format : Formats, pattern : {"tiles", "smpte", "plain"},
        lcd : {1, 3, 6, 8, 14} \X {1, 2, 3, 4}]

=============================================================================
