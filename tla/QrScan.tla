------------------------------- MODULE QrScan -------------------------------
(***************************************************************************)
(* A scan of a QR code, bcur_scan_qr: the calling task, the camera task    *)
(* that takes pictures and looks for codes until it has a whole payload,   *)
(* the host's thread that feeds it from the sensor, and the user who holds *)
(* up codes and presses buttons.  A payload is one plain code, the parts   *)
(* of a BBQr transfer, or the parts of a BC-UR message, whose decoder is a *)
(* library.                                                                *)
(*                                                                         *)
(* A picture shows one part of one code, or nothing that can be read.      *)
(***************************************************************************)
EXTENDS Integers, FiniteSets

CONSTANTS
    Codes,      \* the codes that may be held up
    Code,       \* [kind, header, num, block, last, ok] of each
    Packed,     \* the headers with encoding 'Z', whose payload is inflated
    MAX_INPUT   \* MAX_INPUT_MSG_SIZE: the largest payload taken

Kinds   == {"bbqr", "badbbqr", "ur", "badur", "raw"}
Frame   == UNION {[code: {c}, index: 0 .. Code[c].num - 1] : c \in Codes}
Blank   == [code |-> "none", index |-> 0]
Picture == Frame \cup {Blank}

CodesConstants ==
    /\ MAX_INPUT \in Nat
    /\ \A c \in Codes : /\ Code[c].kind \in Kinds
                        /\ Code[c].num \in Nat \ {0}
                        /\ Code[c].block \in Nat \ {0} /\ Code[c].last \in Nat \ {0}
                        /\ Code[c].ok \in BOOLEAN
    /\ "none" \notin Codes

ASSUME CodesAssumption == CodesConstants

VARIABLES
    calling,  \* the calling task waits in jade_camera_process_images
    enabled,  \* bbqr_enabled of scan_ctx_t
    out,      \* what bcur_scan_qr last returned
    camera,   \* where jade_camera_task is
    skip,     \* num_captures: the next picture is not shown, nor are buttons looked at
    event,    \* the button event the camera screen has not taken yet
    press,    \* the last press since the scan began
    bbqr,     \* bbqr_ctx_t
    ur,       \* the parts the BC-UR decoder has received
    got,      \* qr_data: the code that ended the scan, or Blank for length 0
    wanted,   \* _cam_wanted; _cam_stopped is its negation once a scan has run
    buffer,   \* _cam_frame_buffer
    host,     \* where camera_thread is
    frame,    \* its own frame buffer
    handle    \* it has the device open

scan == <<bbqr, ur, got>>
feed == <<host, frame, handle>>
scanVars == <<calling, enabled, out, camera, skip, event, press, bbqr, ur, got, wanted, buffer, host, frame, handle>>

-----------------------------------------------------------------------------
(* The BBQr collector.                                                     *)

Nothing == [num |-> 0, header |-> "none", block |-> 0, parts |-> <<>>]

\* The bytes a part carries: only the last may be short.
Size(f) == IF f.index = Code[f.code].num - 1 THEN Code[f.code].last ELSE Code[f.code].block

\* A frame of another transfer than the one being collected.
Foreign(b, f) ==
    b.num # 0 /\ (b.header # Code[f.code].header \/ b.num # Code[f.code].num)

\* Mutant of Restarted: the part first seen is kept.
RestartedNever(b, f) == b

\* A part held already is here again with other content: start over.
Restarted(b, f) ==
    IF f.index \in DOMAIN b.parts /\ b.parts[f.index] # f THEN Nothing ELSE b

\* The first part fixes the block and the size of the buffer.  The last of
\* several cannot, and a transfer over the ceiling is not begun.
Begun(b, f) ==
    LET n == Code[f.code].num
    IN  IF b.num # 0 THEN b
        ELSE IF (n > 1 /\ f.index = n - 1) \/ Size(f) * n > MAX_INPUT THEN Nothing
        ELSE [num |-> n, header |-> Code[f.code].header, block |-> Size(f), parts |-> <<>>]

\* Mutant of Fits: only a part that may not be short is measured.
FitsUnlessLast(b, f) == f.index = b.num - 1 \/ Size(f) = b.block

\* Only the last part may be short, and none may be long.
Fits(b, f) == IF f.index = b.num - 1 THEN Size(f) <= b.block ELSE Size(f) = b.block

\* A part held already is not written again.
WithPart(parts, f) ==
    [i \in DOMAIN parts \cup {f.index} |-> IF i \in DOMAIN parts THEN parts[i] ELSE f]

Added(b, f) ==
    IF b.num # 0 /\ Fits(b, f) THEN [b EXCEPT !.parts = WithPart(@, f)] ELSE b

bbqr_collect(b, f) ==
    IF Code[f.code].kind = "badbbqr" \/ Foreign(b, f) THEN b
    ELSE Added(Begun(Restarted(b, f), f), f)

Complete(b) == b.num # 0 /\ DOMAIN b.parts = 0 .. b.num - 1

\* bbqr_finalise: inflating is all that can fail, and what it makes of parts
\* of two transfers is anybody's guess.
Finalises(b) ==
    LET from == {b.parts[i].code : i \in DOMAIN b.parts}
    IN  IF b.header \notin Packed THEN {TRUE}
        ELSE IF Cardinality(from) = 1 THEN {Code[c].ok : c \in from}
        ELSE BOOLEAN

-----------------------------------------------------------------------------
(* The BC-UR decoder: parts of another message are not taken, and a message *)
(* whose checksum is wrong when it is put together is a failure, on which   *)
(* the decoder is made anew.                                                *)

UrWhole(u) == u # {} /\ \E c \in Codes : u = {f \in Frame : f.code = c}
UrOk(u)    == UrWhole(u) /\ \A f \in u : Code[f.code].ok

UrReceive(u, f) ==
    LET v == IF \A g \in u : g.code = f.code THEN u \cup {f} ELSE u
    IN  IF UrWhole(v) /\ ~UrOk(v) THEN {} ELSE v

-----------------------------------------------------------------------------
(* What a code that was read does to the scan.                             *)

\* A code that is no part of anything is the payload.
Plain(f) ==
    /\ got' = f
    /\ UNCHANGED <<bbqr, ur>>

Ignored ==
    /\ got' = Blank
    /\ UNCHANGED <<bbqr, ur>>

CollectBbqr(f) ==
    /\ bbqr' = bbqr_collect(bbqr, f)
    /\ got' = IF Complete(bbqr') THEN f ELSE Blank
    /\ UNCHANGED ur

CollectUr(f) ==
    /\ ur' = UrReceive(ur, f)
    /\ got' = IF UrOk(ur') THEN f ELSE Blank
    /\ UNCHANGED bbqr

IsBbqr(f) == Code[f.code].kind \in {"bbqr", "badbbqr"}

\* Mutant of Owned: a code that is not BBQr is looked at all the same.
OwnedNever == FALSE

\* A BBQr transfer under way owns the scan.
Owned == bbqr.num # 0

collect_any_bcur(f) ==
    IF enabled /\ IsBbqr(f)
    THEN IF ur # {} THEN Ignored ELSE CollectBbqr(f)
    ELSE IF Owned THEN Ignored
    ELSE CASE Code[f.code].kind = "ur"    -> CollectUr(f)
           [] Code[f.code].kind = "badur" -> Ignored
           [] OTHER                       -> Plain(f)

-----------------------------------------------------------------------------
(* The calling task.                                                       *)

NoResult == [type |-> "none", parts |-> <<>>]

ScanInit ==
    /\ calling = FALSE /\ enabled = FALSE /\ out = NoResult
    /\ camera = "none" /\ skip = FALSE /\ event = "none" /\ press = "none"
    /\ bbqr = Nothing /\ ur = {} /\ got = Blank
    /\ wanted = FALSE /\ buffer = Blank
    /\ host = "loop" /\ frame = Blank /\ handle = FALSE

\* bcur_scan_qr as far as the wait for the camera task, which it creates.  An
\* escape may be pending.
Call(b) ==
    /\ ~calling
    /\ calling' = TRUE /\ enabled' = b /\ out' = NoResult
    /\ camera' = "starting"
    /\ press' \in {"none", "key3"}
    /\ UNCHANGED <<skip, event, scan, wanted, buffer, feed>>

\* What is handed to the caller.
Result ==
    IF got = Blank THEN {NoResult}
    ELSE IF UrOk(ur) THEN {[type |-> "ur", parts |-> ur]}
    ELSE IF Complete(bbqr)
         THEN {IF ok THEN [type |-> "bbqr", parts |-> bbqr.parts] ELSE NoResult : ok \in Finalises(bbqr)}
    ELSE {[type |-> "raw", parts |-> got]}

\* The camera task has ended: it is deleted, the camera stopped and its
\* buffers wiped, and the payload copied before the collectors are freed.
\* The task's own variables and its screen's events go with it.
Return ==
    /\ calling /\ camera = "exit"
    /\ calling' = FALSE /\ camera' = "none"
    /\ out' \in Result
    /\ bbqr' = Nothing /\ ur' = {} /\ got' = Blank
    /\ wanted' = FALSE /\ buffer' = Blank
    /\ skip' = FALSE /\ event' = "none" /\ press' = "none"
    /\ UNCHANGED <<enabled, feed>>

-----------------------------------------------------------------------------
(* The camera task.                                                        *)

\* The screen is up before the camera is, and the buttons are heard after.
Begin ==
    /\ camera = "starting"
    /\ camera' = "head" /\ wanted' = TRUE
    /\ UNCHANGED <<calling, enabled, out, skip, event, press, scan, buffer, feed>>

\* The head of the loop looks for an escape.
LoopHead ==
    /\ camera = "head"
    /\ camera' = IF press = "key3" THEN "exit" ELSE "capture"
    /\ UNCHANGED <<calling, enabled, out, skip, event, press, scan, wanted, buffer, feed>>

\* A payload ends the loop; buttons are looked at after every second picture.
Onward == IF got' # Blank THEN "exit" ELSE IF skip THEN "head" ELSE "buttons"

\* esp_camera_fb_get waits a while for a new picture and then takes the one
\* there is; qr_recognize reads its own copy.
Capture(f) ==
    /\ camera = "capture" /\ buffer = f
    /\ IF f = Blank THEN Ignored ELSE collect_any_bcur(f)
    /\ skip' = ~skip
    /\ camera' = Onward
    /\ UNCHANGED <<calling, enabled, out, event, press, wanted, buffer, feed>>

\* The picture is shown and the buttons are looked at, for 10 ms.
Buttons ==
    /\ camera = "buttons"
    /\ camera' = CASE event = "exit" -> "exit" [] event = "help" -> "help" [] OTHER -> "head"
    /\ event' = "none"
    /\ UNCHANGED <<calling, enabled, out, skip, press, scan, wanted, buffer, feed>>

-----------------------------------------------------------------------------
(* The user.  gui_escape_flag is up exactly while the last press is KEY3.   *)

\* A button of the camera screen.  Before the task listens nothing is
\* posted, and a later event replaces one that was not taken.
PressButton(b) ==
    /\ camera \in {"head", "capture", "buttons"}
    /\ press' = b /\ event' = b
    /\ UNCHANGED <<calling, enabled, out, camera, skip, scan, wanted, buffer, feed>>

\* Another press: of a direction, of a button nobody hears yet, of one that
\* does nothing on the help screen.
PressOther ==
    /\ camera \in {"starting", "head", "capture", "buttons", "help"} /\ press # "other"
    /\ press' = "other"
    /\ UNCHANGED <<calling, enabled, out, camera, skip, event, scan, wanted, buffer, feed>>

PressKey3 ==
    /\ camera \in {"starting", "head", "capture", "buttons"} /\ press # "key3"
    /\ press' = "key3"
    /\ UNCHANGED <<calling, enabled, out, camera, skip, event, scan, wanted, buffer, feed>>

\* The help screen, which the camera task waits on, is left by its button or
\* by KEY3, which stays pending.
LeaveHelp(b) ==
    /\ camera = "help"
    /\ camera' = "head" /\ press' = b
    /\ UNCHANGED <<calling, enabled, out, skip, event, scan, wanted, buffer, feed>>

-----------------------------------------------------------------------------
(* camera_thread of the host.                                              *)

\* Jade wants pictures: the device is opened if need be and read.  A session
\* may end, and another begin, before the picture is pushed.
HostRead(p) ==
    /\ host = "loop" /\ wanted
    /\ host' = "push" /\ frame' = p /\ handle' = TRUE
    /\ UNCHANGED <<calling, enabled, out, camera, skip, event, press, scan, wanted, buffer>>

\* The device cannot be opened, or reading it fails and it is closed.
HostError ==
    /\ host = "loop" /\ wanted /\ handle
    /\ handle' = FALSE
    /\ UNCHANGED <<calling, enabled, out, camera, skip, event, press, scan, wanted, buffer, host, frame>>

\* libjade_push_camera_frame drops the picture once the camera has stopped.
HostPush ==
    /\ host = "push"
    /\ host' = "loop"
    /\ buffer' = IF wanted THEN frame ELSE buffer
    /\ UNCHANGED <<calling, enabled, out, camera, skip, event, press, scan, wanted, frame, handle>>

\* Nobody wants pictures: the device is closed and the buffer wiped.
HostIdle ==
    /\ host = "loop" /\ ~wanted
    /\ handle' = FALSE /\ frame' = Blank
    /\ UNCHANGED <<calling, enabled, out, camera, skip, event, press, scan, wanted, buffer, host>>

ScanNext ==
    \/ \E b \in BOOLEAN : Call(b)
    \/ Return
    \/ Begin \/ LoopHead \/ Buttons
    \/ \E f \in Picture : Capture(f)
    \/ \E b \in {"exit", "help"} : PressButton(b)
    \/ PressOther \/ PressKey3
    \/ \E b \in {"other", "key3"} : LeaveHelp(b)
    \/ \E p \in Picture : HostRead(p)
    \/ HostError \/ HostPush \/ HostIdle

ScanSpec == ScanInit /\ [][ScanNext]_scanVars

\* The tasks and the host's thread go on; the user owes nothing.
FairSpec ==
    /\ ScanSpec
    /\ WF_scanVars(Return) /\ WF_scanVars(Begin) /\ WF_scanVars(LoopHead) /\ WF_scanVars(Buttons)
    /\ WF_scanVars(\E f \in Picture : Capture(f))
    /\ WF_scanVars(HostPush) /\ WF_scanVars(HostIdle)

-----------------------------------------------------------------------------
(* Properties.                                                             *)

\* Every part a collection holds has been written inside the buffer that was
\* allocated from the first one, whatever order parts of several transfers
\* came in; and the buffer is under the ceiling ("the write lands inside
\* ctx->data by construction", bbqr_collect).
GridOK ==
    bbqr.num # 0 =>
        /\ bbqr.num * bbqr.block <= MAX_INPUT
        /\ DOMAIN bbqr.parts # {}
        /\ \A i \in DOMAIN bbqr.parts :
              /\ bbqr.parts[i].index = i
              /\ i * bbqr.block + Size(bbqr.parts[i]) <= bbqr.num * bbqr.block

\* The variables have their types, and what the collector holds fits.
ScanTypeOK ==
    /\ {calling, enabled, skip, wanted, handle} \subseteq BOOLEAN
    /\ camera \in {"none", "starting", "head", "capture", "buttons", "help", "exit"}
    /\ event \in {"none", "exit", "help"}
    /\ press \in {"none", "exit", "help", "other", "key3"}
    /\ ur \subseteq Frame
    /\ {got, buffer, frame} \subseteq Picture
    /\ host \in {"loop", "push"}
    /\ out.type \in {"none", "raw", "ur", "bbqr"}
    /\ GridOK

\* A scan hands over one whole payload or nothing.  A plain code is never a
\* part of a transfer that was to be collected; a BC-UR message has all its
\* parts; a BBQr payload has every part, in its place, all of the same
\* header, full but for the last; and a scan that succeeds does not drop a
\* BBQr transfer it was collecting because some other code came by.
DeliversOnePayload ==
    /\ out.type = "raw"  => /\ Code[out.parts.code].kind \notin {"ur", "badur"}
                            /\ enabled => ~IsBbqr(out.parts)
    /\ out.type = "ur"   => UrOk(out.parts)
    /\ out.type = "bbqr" =>
         \E h \in {Code[c].header : c \in Codes}, n \in {Code[c].num : c \in Codes} :
            /\ enabled
            /\ DOMAIN out.parts = 0 .. n - 1
            /\ \A i \in 0 .. n - 1 : LET f == out.parts[i]
                                     IN  /\ f.index = i
                                         /\ Code[f.code].kind = "bbqr"
                                         /\ Code[f.code].header = h /\ Code[f.code].num = n
                                         /\ i < n - 1 => Size(f) = Size(out.parts[0])
                                         /\ Size(f) <= Size(out.parts[0])
    /\ camera = "exit" /\ got # Blank /\ bbqr.num # 0 => Complete(bbqr)
    /\ ~calling => buffer = Blank /\ bbqr = Nothing /\ ur = {}

\* The way out of the camera: once the exit button or KEY3 is the last press,
\* the scan is over, unless another press follows or help was asked for first.
Leaving == press \in {"exit", "key3"}

LeavesOnRequest ==
    (calling /\ Leaving) ~> (~calling \/ ~Leaving \/ camera = "help")

\* After a scan the last picture, which may show a mnemonic, goes from the
\* host's buffer too.
PicturesGo == (~calling /\ frame # Blank) ~> (calling \/ frame = Blank)

\* The code can be collected at all.
Collectable(c) ==
    CASE Code[c].kind = "bbqr" ->
            LET block == IF Code[c].num = 1 THEN Code[c].last ELSE Code[c].block
            IN  Code[c].last <= block /\ block * Code[c].num <= MAX_INPUT
      [] Code[c].kind = "ur"   -> Code[c].ok
      [] OTHER                 -> Code[c].kind = "raw"

\* The scan waits, and no transfer it has begun keeps this code out.
Open(c) ==
    /\ calling
    /\ IF Code[c].kind = "bbqr"
       THEN enabled /\ ur = {} /\ ~Foreign(bbqr, [code |-> c, index |-> 0])
       ELSE bbqr.num = 0 /\ (Code[c].kind = "ur" => \A f \in ur : f.code = c)

\* A code that is held up, all its parts being read time and again and
\* nothing else any more, ends the scan: whatever parts of other transfers
\* with the same header were collected before it.
HeldCodeArrives ==
    \A c \in Codes : Collectable(c) =>
        ~ /\ <>[]Open(c)
          /\ <>[][\A f \in Frame : Capture(f) => f.code = c]_scanVars
          /\ \A i \in 0 .. Code[c].num - 1 : []<><<Capture([code |-> c, index |-> i])>>_scanVars

\* A scan can always be left, leaves no picture behind, and ends by itself
\* when a code is held up for long enough.
ScanEnds == LeavesOnRequest /\ PicturesGo /\ HeldCodeArrives

=============================================================================
