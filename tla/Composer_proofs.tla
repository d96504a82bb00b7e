---------------------------- MODULE Composer_proofs ----------------------------
(* Theorems about the two halves of a channel's screen, the composer and    *)
(* the list of messages with its read markers, which share no state.  The   *)
(* composer, for any channels, files and number of sends under way: replies *)
(* stay in their channel, what a message shows is on the server, and the    *)
(* composer is disabled exactly while a send of its own is under way.  The  *)
(* markers, for any channels, rows and updates: what is watched is read,    *)
(* the marker does not go back, and scrolling up is never stuck.            *)
EXTENDS Composer, ReadMarkers, WellFoundedInduction, TLAPS

USE ComposerAssumption

(* A slot of handleSend, in use or not, and the components that every step  *)
(* keeps in form.                                                           *)
Slot == [at : {"none", "uploading", "posting", "sent", "failed"}, here : BOOLEAN,
         channel : Channels \cup {None}, reply : Channels \cup {None},
         files : SUBSET Picked, left : SUBSET Picked]

Shape ==
  /\ send \in [Sends -> Slot]
  /\ sending \in BOOLEAN /\ uploading \in BOOLEAN
  /\ shown \in Channels \cup {None} /\ replyTo \in Channels \cup {None}
  /\ dialog \in Channels \cup {None}
  /\ staged \subseteq Picked

LEMMA NoSendIsSlot == NoSend \in Slot
  BY DEF NoSend, Slot

LEMMA ShapeInit == Init => Shape
  BY NoSendIsSlot DEF Init, Shape

LEMMA ShapeStep == Shape /\ [Next]_vars => Shape'
<1> SUFFICES ASSUME Shape, [Next]_vars PROVE Shape'
  OBVIOUS
<1> USE DEF Shape
<1>1. ASSUME NEW c \in Channels, Show(c) PROVE Shape'
  BY <1>1 DEF Show, Switch
<1>2. CASE Leave
  <2>1. ASSUME NEW s \in Sends PROVE [send[s] EXCEPT !.here = FALSE] \in Slot
    BY DEF Slot
  <2>2. send' \in [Sends -> Slot]
    BY <1>2, <2>1 DEF Leave
  <2>3. QED
    BY <1>2, <2>2 DEF Leave
<1>3. CASE (\E text \in BOOLEAN : Type(text)) \/ ReplyOrCancel \/ OpenDialog
  BY <1>3 DEF Type, ReplyOrCancel, Reply, OpenDialog, Free
<1>4. ASSUME NEW f \in Files, Drop(f) \/ Paste(f) PROVE Shape'
  <2>1. [file |-> f, for |-> shown] \in Picked
    BY <1>4 DEF Drop, Paste, Free, Picked
  <2>2. QED
    BY <1>4, <2>1 DEF Drop, Paste, Stage
<1>5. ASSUME NEW f \in staged, RemoveFile(f) PROVE Shape'
  BY <1>5 DEF RemoveFile
<1>6. CASE DialogReturns
  <2>1. ASSUME NEW f \in Files, dialog \in Channels, Stage(f, dialog)
        PROVE  staged' \subseteq Picked
    BY <2>1 DEF Stage, Picked
  <2>2. QED
    BY <1>6, <2>1 DEF DialogReturns
<1>7. ASSUME NEW s \in Sends, HandleSend(s) PROVE Shape'
  <2>1. [at |-> IF staged = {} THEN "posting" ELSE "uploading", here |-> TRUE,
         channel |-> shown, reply |-> replyTo, files |-> staged, left |-> staged] \in Slot
    BY DEF Slot
  <2>2. QED
    BY <1>7, <2>1 DEF HandleSend, Free
<1>8. ASSUME NEW s \in Sends, NEW f \in Picked, Upload(s, f) PROVE Shape'
  <2>1. ASSUME NEW at \in {"uploading", "posting"}
        PROVE  [send[s] EXCEPT !.left = @ \ {f}, !.at = at] \in Slot
    BY DEF Slot
  <2>2. UploadedOne(s, f) \in [Sends -> Slot]
    BY <2>1 DEF UploadedOne
  <2>3. QED
    BY <1>8, <2>2 DEF Upload
<1>9. ASSUME NEW s \in Sends, NEW at \in {"sent", "failed"}
      PROVE  [send EXCEPT ![s].at = at] \in [Sends -> Slot]
  <2>1. [send[s] EXCEPT !.at = at] \in Slot
    BY DEF Slot
  <2>2. QED
    BY <2>1
<1>10. ASSUME NEW s \in Sends, NEW f \in Picked, UploadRefused(s, f) PROVE Shape'
  BY <1>9, <1>10 DEF UploadRefused, composer
<1>11. ASSUME NEW s \in Sends, SendRefused(s) \/ Post(s) PROVE Shape'
  <2>1. UNCHANGED composer
    BY <1>11 DEF SendRefused, Post
  <2>2. PICK at \in {"sent", "failed"} : send' = [send EXCEPT ![s].at = at]
    <3>1. CASE SendRefused(s)
      BY <3>1 DEF SendRefused
    <3>2. CASE Post(s)
      BY <3>2 DEF Post
    <3>3. QED
      BY <1>11, <3>1, <3>2
  <2>3. send' \in [Sends -> Slot]
    BY <1>9, <2>2
  <2>4. QED
    BY <2>1, <2>3 DEF composer
<1>12. ASSUME NEW s \in Sends, Sent(s) \/ SendFailed(s) PROVE Shape'
  <2>1. send' \in [Sends -> Slot]
    BY <1>12, NoSendIsSlot DEF Sent, SendFailed
  <2>2. QED
    BY <1>12, <2>1 DEF Sent, SendFailed
<1>13. CASE UNCHANGED vars
  BY <1>13 DEF vars, composer
<1>14. QED
  BY <1>1, <1>2, <1>3, <1>4, <1>5, <1>6, <1>7, <1>8, <1>10, <1>11, <1>12, <1>13
     DEF Next, SendStep, Select, Navigate

LEMMA ShapeAlways == Spec => []Shape
  BY ShapeInit, ShapeStep, PTL DEF Spec

(* A slot in use is a send to a channel; the rest of the type invariant.    *)
UsedSlot == [at : {"uploading", "posting", "sent", "failed"}, here : BOOLEAN,
             channel : Channels, reply : Channels \cup {None},
             files : SUBSET Picked, left : SUBSET Picked]

InUse == \A s \in Sends : send[s] = NoSend \/ send[s] \in UsedSlot

Kept ==
  /\ draft \in BOOLEAN /\ progress \in 0..MaxSends
  /\ local \subseteq Files /\ uploaded \subseteq Files \X Channels

LEMMA InUseStep ==
  ASSUME Shape, InUse, [Next]_vars
  PROVE  InUse'
<1>0. send \in [Sends -> Slot]
  BY DEF Shape
<1>a. ASSUME UNCHANGED send PROVE InUse'
  BY <1>a DEF InUse
<1>b. ASSUME NEW s \in Sends, NEW r, send' = [send EXCEPT ![s] = r], r = NoSend \/ r \in UsedSlot
      PROVE  InUse'
  BY <1>0, <1>b DEF InUse
<1>c. ASSUME NEW s \in Sends, send[s].at # "none" PROVE send[s] \in UsedSlot
  BY <1>c DEF InUse, NoSend
<1>1. CASE Leave
  <2> SUFFICES ASSUME NEW s \in Sends PROVE send'[s] = NoSend \/ send'[s] \in UsedSlot
    BY DEF InUse
  <2>1. send'[s] = [send[s] EXCEPT !.here = FALSE]
    BY <1>1 DEF Leave
  <2>2. CASE send[s] = NoSend
    <3>1. ASSUME NEW r \in Slot, r.here = FALSE PROVE [r EXCEPT !.here = FALSE] = r
      BY <3>1 DEF Slot
    <3>2. NoSend.here = FALSE
      BY DEF NoSend
    <3> QED
      BY <2>1, <2>2, <3>1, <3>2, NoSendIsSlot
  <2>3. CASE send[s] \in UsedSlot
    BY <2>1, <2>3 DEF UsedSlot
  <2> QED
    BY <2>2, <2>3 DEF InUse
<1>2. ASSUME NEW s \in Sends, HandleSend(s) PROVE InUse'
  <2> DEFINE r == [at |-> IF staged = {} THEN "posting" ELSE "uploading", here |-> TRUE,
                   channel |-> shown, reply |-> replyTo, files |-> staged, left |-> staged]
  <2>1. shown \in Channels /\ replyTo \in Channels \cup {None} /\ staged \subseteq Picked
    BY <1>2 DEF HandleSend, Free, Shape
  <2>2. r \in UsedSlot
    BY <2>1 DEF UsedSlot
  <2>3. send' = [send EXCEPT ![s] = r]
    BY <1>2 DEF HandleSend
  <2> QED
    BY <1>b, <2>2, <2>3
<1>3. ASSUME NEW s \in Sends, NEW f \in Picked, Upload(s, f) PROVE InUse'
  <2> DEFINE at == IF send[s].left = {f} THEN "posting" ELSE "uploading"
             r == [send[s] EXCEPT !.left = @ \ {f}, !.at = at]
  <2>1. send[s] \in UsedSlot
    BY <1>c, <1>3 DEF Upload
  <2>2. r \in UsedSlot
    BY <2>1 DEF UsedSlot
  <2>3. send' = [send EXCEPT ![s] = r]
    BY <1>0, <1>3 DEF Upload, UploadedOne
  <2> QED
    BY <1>b, <2>2, <2>3
<1>4. ASSUME NEW s \in Sends, NEW at \in {"sent", "failed"}, send[s].at # "none",
             send' = [send EXCEPT ![s].at = at]
      PROVE  InUse'
  <2>1. [send[s] EXCEPT !.at = at] \in UsedSlot
    BY <1>c, <1>4 DEF UsedSlot
  <2> QED
    BY <1>b, <1>4, <2>1
<1>5. ASSUME NEW s \in Sends, NEW f \in Picked, UploadRefused(s, f) PROVE InUse'
  BY <1>4, <1>5 DEF UploadRefused
<1>6. ASSUME NEW s \in Sends, SendRefused(s) \/ Post(s) PROVE InUse'
  BY <1>4, <1>6 DEF SendRefused, Post
<1>7. ASSUME NEW s \in Sends, Sent(s) \/ SendFailed(s) PROVE InUse'
  BY <1>b, <1>7 DEF Sent, SendFailed
<1>8. ASSUME NEW c \in Channels, Show(c) PROVE InUse'
  BY <1>a, <1>8 DEF Show
<1>9. CASE (\E text \in BOOLEAN : Type(text)) \/ ReplyOrCancel \/ OpenDialog
  BY <1>a, <1>9 DEF Type, ReplyOrCancel, Reply, OpenDialog
<1>10. CASE \/ \E f \in Files : Drop(f) \/ Paste(f)
            \/ \E f \in staged : RemoveFile(f)
            \/ DialogReturns
  BY <1>a, <1>10 DEF Drop, Paste, RemoveFile, DialogReturns
<1>11. CASE UNCHANGED vars
  BY <1>a, <1>11 DEF vars
<1> QED
  BY <1>1, <1>2, <1>3, <1>5, <1>6, <1>7, <1>8, <1>9, <1>10, <1>11
     DEF Next, SendStep, Select, Navigate

LEMMA KeptStep ==
  ASSUME Shape, InUse, Kept, [Next]_vars
  PROVE  Kept'
<1> USE DEF Kept
<1>1. CASE UNCHANGED <<draft, progress, stored>>
  BY <1>1 DEF stored
<1>2. ASSUME NEW s \in Sends, NEW f \in Picked, Upload(s, f) PROVE Kept'
  <2>1. f.file \in Files
    BY DEF Picked
  <2>2. send[s].channel \in Channels
    BY <1>2 DEF Upload, InUse, NoSend, UsedSlot
  <2>3. progress' \in 0..MaxSends
    <3>1. progress' \in {s, progress} /\ s \in 0..MaxSends
      BY <1>2 DEF Upload, ShowProgress, Sends
    <3> QED
      BY <3>1
  <2>4. local' = local \cup {f.file} /\ uploaded' = uploaded \cup {<<f.file, send[s].channel>>}
    BY <1>2 DEF Upload
  <2>5. draft' \in BOOLEAN
    BY <1>2 DEF Upload
  <2> QED
    BY <2>1, <2>2, <2>3, <2>4, <2>5
<1>3. ASSUME NEW s \in Sends, NEW f \in Picked, UploadRefused(s, f) PROVE Kept'
  <2>1. f.file \in Files
    BY DEF Picked
  <2> QED
    BY <1>3, <2>1 DEF UploadRefused, composer
<1>0. 0 \in 0..MaxSends
  OBVIOUS
<1>a. ASSUME draft' \in {draft, FALSE}, progress' \in {progress, 0}, UNCHANGED stored PROVE Kept'
  <2>1. draft' \in BOOLEAN
    BY <1>a
  <2>2. progress' \in 0..MaxSends
    BY <1>0, <1>a
  <2> QED
    BY <1>a, <2>1, <2>2 DEF stored
<1>4. CASE Leave
  BY <1>a, <1>4 DEF Leave
<1>5. ASSUME NEW s \in Sends, Sent(s) \/ SendFailed(s) PROVE Kept'
  BY <1>a, <1>5 DEF Sent, SendFailed
<1>6. ASSUME NEW c \in Channels, Show(c) PROVE Kept'
  BY <1>a, <1>6 DEF Show, Switch
<1>7. ASSUME NEW text \in BOOLEAN, Type(text) PROVE Kept'
  BY <1>7 DEF Type, stored
<1>8. CASE ReplyOrCancel \/ OpenDialog \/ DialogReturns
  <2>1. UNCHANGED <<draft, progress, stored>>
    BY <1>8 DEF ReplyOrCancel, Reply, OpenDialog, DialogReturns
  <2> QED
    BY <1>1, <2>1
<1>9. CASE (\E f \in Files : Drop(f) \/ Paste(f)) \/ (\E f \in staged : RemoveFile(f))
  <2>1. UNCHANGED <<draft, progress, stored>>
    BY <1>9 DEF Drop, Paste, RemoveFile
  <2> QED
    BY <1>1, <2>1
<1>10. ASSUME NEW s \in Sends, HandleSend(s) \/ SendRefused(s) \/ Post(s) PROVE Kept'
  BY <1>1, <1>10 DEF HandleSend, SendRefused, Post, composer
<1>11. CASE UNCHANGED vars
  BY <1>1, <1>11 DEF vars, composer
<1> QED
  BY <1>2, <1>3, <1>4, <1>5, <1>6, <1>7, <1>8, <1>9, <1>10, <1>11
     DEF Next, SendStep, Select, Navigate

(* Type correctness of the composer: a send under way is always a send to a *)
(* channel, although the view may show none by then.                        *)
THEOREM ComposerTypeCorrect == Spec => []TypeOK
<1>1. Init => InUse /\ Kept
  <2>1. Init => InUse
    BY DEF Init, InUse
  <2>2. 0 \in 0..MaxSends
    OBVIOUS
  <2>3. Init => Kept
    BY <2>2 DEF Init, Kept
  <2> QED
    BY <2>1, <2>3
<1>2. Shape /\ InUse /\ Kept /\ [Next]_vars => InUse' /\ Kept'
  BY InUseStep, KeptStep
<1>3. Shape /\ InUse /\ Kept => TypeOK
  BY DEF Shape, InUse, Kept, TypeOK, UsedSlot
<1> QED
  BY <1>1, <1>2, <1>3, ShapeAlways, PTL DEF Spec

------------------------------------------------------------------------------
(* Replies.                                                                 *)

(* The composer itself only holds a reply to a message of its channel: what *)
(* a switch, a notification or another panel must not forget to drop.       *)
ReplyInv == RepliesStayHome /\ replyTo \in {None, shown}

LEMMA ReplyStep ==
  ASSUME Shape, ReplyInv, [Next]_vars
  PROVE  ReplyInv'
<1> USE DEF ReplyInv, RepliesStayHome
<1>0. ASSUME \A s \in Sends : /\ send'[s].reply = send[s].reply
                              /\ send'[s].channel = send[s].channel
      PROVE  RepliesStayHome'
  BY <1>0
<1>1. ASSUME NEW c \in Channels, Show(c) PROVE ReplyInv'
  BY <1>1 DEF Show, Switch
<1>2. CASE Leave
  <2>1. \A s \in Sends : /\ send'[s].reply = send[s].reply
                         /\ send'[s].channel = send[s].channel
    BY <1>2 DEF Leave, Shape, Slot
  <2>2. QED
    BY <1>0, <1>2, <2>1 DEF Leave
<1>3. CASE (\E text \in BOOLEAN : Type(text)) \/ ReplyOrCancel \/ OpenDialog
  BY <1>3 DEF Type, ReplyOrCancel, Reply, OpenDialog
<1>4. ASSUME NEW f \in Files, Drop(f) \/ Paste(f) PROVE ReplyInv'
  BY <1>4 DEF Drop, Paste
<1>5. CASE (\E f \in staged : RemoveFile(f)) \/ DialogReturns
  BY <1>5 DEF RemoveFile, DialogReturns
<1>6. ASSUME NEW s \in Sends, HandleSend(s) PROVE ReplyInv'
  <2>1. \A t \in Sends : send'[t].reply \in {None, send'[t].channel}
    BY <1>6 DEF HandleSend, Shape
  <2>2. QED
    BY <1>6, <2>1 DEF HandleSend
<1>7. ASSUME NEW s \in Sends, NEW f \in Picked, Upload(s, f) \/ UploadRefused(s, f)
      PROVE  ReplyInv'
  <2>1. \A t \in Sends : /\ send'[t].reply = send[t].reply
                         /\ send'[t].channel = send[t].channel
    BY <1>7 DEF Upload, UploadRefused, UploadedOne, Shape, Slot
  <2>2. QED
    BY <1>0, <1>7, <2>1 DEF Upload, UploadRefused, composer
<1>8. ASSUME NEW s \in Sends, SendRefused(s) \/ Post(s) PROVE ReplyInv'
  <2>1. \A t \in Sends : /\ send'[t].reply = send[t].reply
                         /\ send'[t].channel = send[t].channel
    BY <1>8 DEF SendRefused, Post, Shape, Slot
  <2>2. QED
    BY <1>0, <1>8, <2>1 DEF SendRefused, Post, composer
<1>9. ASSUME NEW s \in Sends, Sent(s) \/ SendFailed(s) PROVE ReplyInv'
  <2>1. \A t \in Sends : send'[t].reply \in {None, send'[t].channel}
    BY <1>9 DEF Sent, SendFailed, Shape, NoSend
  <2>2. QED
    BY <1>9, <2>1 DEF Sent, SendFailed
<1>10. CASE UNCHANGED vars
  BY <1>10 DEF vars, composer
<1>11. QED
  BY <1>1, <1>2, <1>3, <1>4, <1>5, <1>6, <1>7, <1>8, <1>9, <1>10
     DEF Next, SendStep, Select, Navigate

(* handleSend posts to the channel shown when it was called, with the reply *)
(* chosen by then: it is a reply to a message of that channel.              *)
THEOREM RepliesAlwaysStayHome == Spec => []RepliesStayHome
<1>1. Init => ReplyInv
  BY DEF Init, ReplyInv, RepliesStayHome, NoSend
<1>2. Shape /\ ReplyInv /\ [Next]_vars => ReplyInv'
  BY ReplyStep
<1>3. ReplyInv => RepliesStayHome
  BY DEF ReplyInv
<1>4. QED
  BY <1>1, <1>2, <1>3, ShapeAlways, PTL DEF Spec

------------------------------------------------------------------------------
(* Uploads.                                                                 *)

Backed(s, f) == <<f.file, send[s].channel>> \in uploaded /\ f.file \in local

(* handleSend takes the files one after the other: those it has left behind *)
(* are backed, and it posts when there is none left.                        *)
BackedInv == \A s \in Sends :
  /\ send[s].at \in {"uploading", "posting", "sent"} =>
       \A f \in send[s].files \ send[s].left : Backed(s, f)
  /\ send[s].at \in {"posting", "sent"} => send[s].left = {}

LEMMA BackedStep ==
  ASSUME Shape, BackedInv, [Next]_vars
  PROVE  BackedInv'
<1> USE DEF BackedInv, Backed
<1>1. CASE UNCHANGED <<send, stored>>
  BY <1>1 DEF stored
<1>2. CASE Leave
  <2>1. \A s \in Sends : /\ send'[s].at = send[s].at /\ send'[s].channel = send[s].channel
                         /\ send'[s].files = send[s].files /\ send'[s].left = send[s].left
    BY <1>2 DEF Leave, Shape, Slot
  <2>2. UNCHANGED stored
    BY <1>2 DEF Leave
  <2>3. QED
    BY <2>1, <2>2 DEF stored
<1>3. ASSUME NEW s \in Sends, HandleSend(s) PROVE BackedInv'
  <2>1. /\ send'[s].left = send'[s].files
        /\ send'[s].at \in {"posting", "sent"} => send'[s].left = {}
    BY <1>3 DEF HandleSend, Shape
  <2>2. \A t \in Sends \ {s} : send'[t] = send[t]
    BY <1>3 DEF HandleSend, Shape
  <2>3. UNCHANGED stored
    BY <1>3 DEF HandleSend
  <2>4. QED
    BY <2>1, <2>2, <2>3 DEF stored
<1>4. ASSUME NEW s \in Sends, NEW f \in Picked, Upload(s, f) PROVE BackedInv'
  <2>1. /\ send'[s].files = send[s].files /\ send'[s].channel = send[s].channel
        /\ send'[s].left = send[s].left \ {f}
        /\ send'[s].at \in {"posting", "sent"} => send[s].left = {f}
    BY <1>4 DEF Upload, UploadedOne, Shape, Slot
  <2>2. \A t \in Sends \ {s} : send'[t] = send[t]
    BY <1>4 DEF Upload, UploadedOne, Shape
  <2>3. /\ uploaded \subseteq uploaded' /\ local \subseteq local'
        /\ <<f.file, send[s].channel>> \in uploaded' /\ f.file \in local'
        /\ send[s].at = "uploading"
    BY <1>4 DEF Upload
  <2>4. QED
    BY <2>1, <2>2, <2>3
<1>5. ASSUME NEW s \in Sends, NEW f \in Picked, UploadRefused(s, f) PROVE BackedInv'
  <2>1. send'[s].at = "failed" /\ \A t \in Sends \ {s} : send'[t] = send[t]
    BY <1>5 DEF UploadRefused, Shape, Slot
  <2>2. uploaded' = uploaded /\ local \subseteq local'
    BY <1>5 DEF UploadRefused
  <2>3. QED
    BY <2>1, <2>2
<1>6. ASSUME NEW s \in Sends, SendRefused(s) \/ Post(s) PROVE BackedInv'
  <2>1. /\ send'[s].files = send[s].files /\ send'[s].channel = send[s].channel
        /\ send'[s].left = send[s].left
        /\ send'[s].at = "failed" \/ (send'[s].at = "sent" /\ send[s].at = "posting")
    BY <1>6 DEF SendRefused, Post, Shape, Slot
  <2>2. \A t \in Sends \ {s} : send'[t] = send[t]
    BY <1>6 DEF SendRefused, Post, Shape
  <2>3. UNCHANGED stored
    BY <1>6 DEF SendRefused, Post
  <2>4. QED
    BY <2>1, <2>2, <2>3 DEF stored
<1>7. ASSUME NEW s \in Sends, Sent(s) \/ SendFailed(s) PROVE BackedInv'
  <2>1. send'[s].at = "none" /\ \A t \in Sends \ {s} : send'[t] = send[t]
    BY <1>7 DEF Sent, SendFailed, Shape, NoSend
  <2>2. UNCHANGED stored
    BY <1>7 DEF Sent, SendFailed
  <2>3. QED
    BY <2>1, <2>2 DEF stored
<1>8. ASSUME NEW c \in Channels, Show(c) PROVE UNCHANGED <<send, stored>>
  BY <1>8 DEF Show
<1>9. CASE (\E text \in BOOLEAN : Type(text)) \/ ReplyOrCancel \/ OpenDialog
  BY <1>1, <1>9 DEF Type, ReplyOrCancel, Reply, OpenDialog
<1>10. CASE \/ \E f \in Files : Drop(f) \/ Paste(f)
            \/ \E f \in staged : RemoveFile(f)
            \/ DialogReturns
  BY <1>1, <1>10 DEF Drop, Paste, RemoveFile, DialogReturns
<1>11. CASE UNCHANGED vars
  BY <1>1, <1>11 DEF vars
<1>12. QED
  BY <1>1, <1>2, <1>3, <1>4, <1>5, <1>6, <1>7, <1>8, <1>9, <1>10, <1>11
     DEF Next, SendStep, Select, Navigate

(* No message is posted that shows a file of which an upload was refused or *)
(* left out, however many uploads run beside each other.                    *)
THEOREM PostsAlwaysBacked == Spec => []PostsAreBacked
<1>1. Init => BackedInv
  BY DEF Init, BackedInv, Backed, NoSend
<1>2. Shape /\ BackedInv /\ [Next]_vars => BackedInv'
  BY BackedStep
<1>3. BackedInv => PostsAreBacked
  BY DEF BackedInv, Backed, PostsAreBacked
<1>4. QED
  BY <1>1, <1>2, <1>3, ShapeAlways, PTL DEF Spec

------------------------------------------------------------------------------
(* The composer that is busy.                                               *)

LEMMA BusyStep ==
  ASSUME Shape, BusyIsASend, [Next]_vars
  PROVE  BusyIsASend'
<1> USE DEF BusyIsASend
<1>0. ASSUME UNCHANGED <<sending, uploading>>,
             \A s \in Sends : send'[s].here = send[s].here /\ send'[s].files = send[s].files
      PROVE  BusyIsASend'
  BY <1>0
<1>1. ASSUME NEW c \in Channels, Show(c) PROVE BusyIsASend'
  BY <1>1 DEF Show, Switch
<1>2. CASE Leave
  <2>1. \A s \in Sends : ~send'[s].here
    BY <1>2 DEF Leave, Shape, Slot
  <2>2. QED
    BY <1>2, <2>1 DEF Leave
<1>3. CASE (\E text \in BOOLEAN : Type(text)) \/ ReplyOrCancel \/ OpenDialog
  BY <1>0, <1>3 DEF Type, ReplyOrCancel, Reply, OpenDialog
<1>4. CASE \/ \E f \in Files : Drop(f) \/ Paste(f)
           \/ \E f \in staged : RemoveFile(f)
           \/ DialogReturns
  BY <1>0, <1>4 DEF Drop, Paste, RemoveFile, DialogReturns
<1>5. ASSUME NEW s \in Sends, HandleSend(s) PROVE BusyIsASend'
  <2>1. \A t \in Sends : ~send[t].here
    BY <1>5 DEF HandleSend, Disabled
  <2>2. /\ send'[s].here /\ send'[s].files = staged
        /\ \A t \in Sends \ {s} : send'[t] = send[t]
    BY <1>5 DEF HandleSend, Shape
  <2>3. sending' = TRUE /\ (uploading' => staged # {})
    BY <1>5 DEF HandleSend
  <2>4. QED
    BY <2>1, <2>2, <2>3
<1>6. ASSUME NEW s \in Sends, NEW f \in Picked, Upload(s, f) \/ UploadRefused(s, f)
      PROVE  BusyIsASend'
  <2>1. \A t \in Sends : send'[t].here = send[t].here /\ send'[t].files = send[t].files
    BY <1>6 DEF Upload, UploadRefused, UploadedOne, Shape, Slot
  <2>2. QED
    BY <1>0, <1>6, <2>1 DEF Upload, UploadRefused, composer
<1>7. ASSUME NEW s \in Sends, SendRefused(s) \/ Post(s) PROVE BusyIsASend'
  <2>1. \A t \in Sends : send'[t].here = send[t].here /\ send'[t].files = send[t].files
    BY <1>7 DEF SendRefused, Post, Shape, Slot
  <2>2. QED
    BY <1>0, <1>7, <2>1 DEF SendRefused, Post, composer
<1>8. ASSUME NEW s \in Sends, Sent(s) \/ SendFailed(s) PROVE BusyIsASend'
  <2>1. ~send'[s].here /\ \A t \in Sends \ {s} : send'[t] = send[t]
    BY <1>8 DEF Sent, SendFailed, Shape, NoSend
  <2>2. CASE send[s].here
    <3>1. sending' = FALSE
      BY <1>8, <2>2 DEF Sent, SendFailed, Shape
    <3>2. \A t \in Sends : ~send'[t].here
      BY <2>1, <2>2
    <3>3. ~uploading'
      <4>1. CASE send[s].files = {}
        <5>1. ~uploading
          BY <2>2, <4>1
        <5>2. QED
          BY <1>8, <4>1, <5>1 DEF Sent, SendFailed
      <4>2. CASE send[s].files # {}
        BY <1>8, <2>2, <4>2 DEF Sent, SendFailed
      <4>3. QED
        BY <4>1, <4>2
    <3>4. QED
      BY <3>1, <3>2, <3>3
  <2>3. CASE ~send[s].here
    <3>1. UNCHANGED <<sending, uploading>>
      BY <1>8, <2>3 DEF Sent, SendFailed, Shape
    <3>2. \A t \in Sends : send'[t].here => send[t].here /\ send'[t].files = send[t].files
      BY <2>1
    <3>3. \A t \in Sends : send[t].here => send'[t].here /\ send'[t].files = send[t].files
      BY <2>1, <2>3
    <3>4. QED
      BY <3>1, <3>2, <3>3
  <2>4. QED
    BY <2>2, <2>3
<1>9. CASE UNCHANGED vars
  BY <1>0, <1>9 DEF vars, composer
<1>10. QED
  BY <1>1, <1>2, <1>3, <1>4, <1>5, <1>6, <1>7, <1>8, <1>9
     DEF Next, SendStep, Select, Navigate

(* The sending flag outlives every switch of the channel and dies with the  *)
(* composer, and so does the call of handleSend it stands for: no composer  *)
(* stays disabled without a send, and none sends twice at a time.           *)
THEOREM BusyIsAlwaysASend == Spec => []BusyIsASend
<1>1. Init => BusyIsASend
  BY DEF Init, BusyIsASend, NoSend
<1>2. Shape /\ BusyIsASend /\ [Next]_vars => BusyIsASend'
  BY BusyStep
<1>3. QED
  BY <1>1, <1>2, ShapeAlways, PTL DEF Spec

-----------------------------------------------------------------------------
(* The read markers.                                                         *)

USE ChannelAssumption, RowsAssumption

Put == [channel : TextChannels, seq : Seqs, late : BOOLEAN]

(* A set of sequence numbers that is not empty has a first and a last.        *)
LEMMA FirstOfNaturals ==
  ASSUME NEW T \in SUBSET Nat, T # {}
  PROVE  \E i \in T : \A j \in T : i <= j
<1>1. PICK i \in T : \A j \in T : <<j, i>> \notin OpToRel(<, Nat)
  BY NatLessThanWellFounded, WFMin
<1>2. \A j \in T : ~(j < i)
  BY <1>1 DEF OpToRel
<1> QED
  BY <1>2

LEMMA ExtremesAreSeqs ==
  ASSUME NEW S \in SUBSET Seqs
  PROVE  Least(S) \in Seqs /\ Greatest(S) \in Seqs
<1>1. CASE S = {}
  BY <1>1 DEF Least, Greatest, Seqs
<1>2. CASE S # {}
  <2>1. \E i \in S : \A j \in S : i <= j
    BY <1>2, FirstOfNaturals DEF Seqs
  <2>2. \E i \in S : \A j \in S : i >= j
    <3> DEFINE T == {Most - i : i \in S}
    <3>1. T \in SUBSET Nat /\ T # {}
      <4>1. \A i \in S : Most - i \in Nat
        BY DEF Seqs
      <4> QED
        BY <1>2, <4>1
    <3>2. PICK i \in T : \A j \in T : i <= j
      BY <3>1, FirstOfNaturals
    <3>3. PICK s \in S : i = Most - s
      BY <3>2
    <3>4. \A j \in S : Most - s <= Most - j
      BY <3>2, <3>3
    <3> QED
      BY <3>4 DEF Seqs
  <2> QED
    BY <1>2, <2>1, <2>2 DEF Least, Greatest
<1> QED
  BY <1>1, <1>2

(* What n marks in a row send.                                               *)
LEMMA SentLast ==
  ASSUME MarkersTypeOK, NEW c \in TextChannels, NEW w \in Window, NEW n \in Nat
  PROVE  LET s == MarksSent(c, w, n)
         IN  /\ s \in Seq(Put)
             /\ Len(s) \in Nat /\ Len(puts) <= Len(s)
             /\ w.newest # 0 /\ n > 0 => Len(s) \in DOMAIN s \ DOMAIN puts
             /\ n = 0 => Len(s) = Len(puts)
             /\ \A k \in DOMAIN puts : s[k] = puts[k]
             /\ \A k \in DOMAIN s \ DOMAIN puts :
                  s[k].channel = c /\ s[k].seq = w.newest /\ ~s[k].late
<1> DEFINE r == [channel |-> c, seq |-> w.newest, late |-> FALSE]
           more == [j \in 1..n |-> r]
<1>1. puts \in Seq(Put)
  BY DEF MarkersTypeOK, Put
<1>2. r \in Put /\ more \in Seq(Put) /\ Len(more) = n
  BY DEF Put, Window
<1>3. CASE w.newest = 0
  BY <1>1, <1>3 DEF MarksSent
<1>4. CASE w.newest # 0
  <2>1. MarksSent(c, w, n) = puts \o more
    BY <1>4 DEF MarksSent
  <2>2. puts \o more \in Seq(Put) /\ Len(puts \o more) = Len(puts) + n
    BY <1>1, <1>2
  <2>3. \A k \in 1..Len(puts) + n :
          (puts \o more)[k] = IF k <= Len(puts) THEN puts[k] ELSE r
    BY <1>1, <1>2
  <2> HIDE DEF more
  <2> QED
    BY <1>1, <1>4, <2>1, <2>2, <2>3
<1> QED
  BY <1>3, <1>4

(* The type of a page, and of a window with its messages marked.             *)
LEMMA MarkedIsWindow ==
  ASSUME NEW w \in Window, NEW n \in Nat
  PROVE  /\ Marked(w, n) \in Window
         /\ Marked(w, n).newest = w.newest /\ Marked(w, n).messages = w.messages
         /\ Marked(w, n).loading = w.loading
  BY DEF Marked, Window

(* Whatever the effects of a change send and set, they keep the types; the   *)
(* window is the new one, and at least one mark is sent when the channel     *)
(* shown has another newest message.                                         *)
LEMMA ChangeMarks ==
  ASSUME MarkersTypeOK, NEW c \in TextChannels, NEW w \in Window, Change(c, w)
  PROVE  \E v \in Window, n \in Nat :
           /\ windows' = [windows EXCEPT ![c] = v]
           /\ v.newest = w.newest /\ v.messages = w.messages /\ v.loading = w.loading
           /\ puts' = MarksSent(c, v, n)
           /\ (view = c /\ w.newest # windows[c].newest) => n > 0
           /\ scroll' \in Scroll
           /\ view # c => scroll' = scroll
           /\ scroll'.older => scroll.older /\ (view = c => windows[c].loading = w.loading \/ w.loading)
<1>0. windows[c] \in Window /\ scroll \in Scroll
  BY DEF MarkersTypeOK
<1>1. CASE view = c
  <2> DEFINE grown == Cardinality(w.messages) > Count(c)
             n == Times(w.newest # windows[c].newest) + Times(grown /\ scroll.atBottom)
  <2>1. /\ windows' = [windows EXCEPT ![c] = Marked(w, n)]
        /\ puts' = MarksSent(c, w, n)
        /\ scroll' = [scroll EXCEPT !.older = @ /\ (windows[c].loading = w.loading \/ w.loading)]
    BY <1>1 DEF Change, Rerender
  <2>2. n \in Nat /\ (w.newest # windows[c].newest => n > 0)
    BY DEF Times
  <2>3. puts' = MarksSent(c, Marked(w, n), n)
    BY <2>1, <2>2, MarkedIsWindow DEF MarksSent
  <2>4. /\ scroll' \in Scroll
        /\ scroll'.older => scroll.older /\ (windows[c].loading = w.loading \/ w.loading)
    BY <1>0, <2>1 DEF Scroll
  <2> HIDE DEF n
  <2> QED
    BY <1>1, <2>1, <2>2, <2>3, <2>4, MarkedIsWindow
<1>2. CASE view # c
  <2>1. puts' = MarksSent(c, w, 0)
    <3>1. puts \in Seq(Put)
      BY DEF MarkersTypeOK, Put
    <3>2. puts \o [j \in 1..0 |-> [channel |-> c, seq |-> w.newest, late |-> FALSE]] = puts
      BY <3>1
    <3> QED
      BY <1>2, <3>2 DEF Change, MarksSent
  <2> QED
    BY <1>0, <1>2, <2>1 DEF Change
<1> QED
  BY <1>1, <1>2

(* Of the updates of a channel on their way, the late ones come first.       *)
LatePrefix == \A j, k \in DOMAIN puts :
  (j < k /\ puts[j].channel = puts[k].channel /\ puts[k].late) => puts[j].late

(* The others ask for more and more, up to the newest message loaded.        *)
MarksInOrder == \A c \in TextChannels : clean[c] =>
  /\ marker[c] <= windows[c].newest
  /\ \A k \in DOMAIN puts : (puts[k].channel = c /\ ~puts[k].late) =>
       /\ marker[c] <= puts[k].seq /\ puts[k].seq <= windows[c].newest
       /\ \A j \in DOMAIN puts : (j > k /\ puts[j].channel = c) => puts[k].seq <= puts[j].seq

(* The last of them, or the row when none is left, is the newest message of  *)
(* the channel shown.                                                        *)
LastMark == \A c \in TextChannels : (view = c /\ clean[c] /\ windows[c].newest > 0) =>
  \/ /\ marker[c] = windows[c].newest
     /\ \A k \in DOMAIN puts : puts[k].channel = c => puts[k].late
  \/ \E k \in DOMAIN puts :
       /\ puts[k].channel = c /\ ~puts[k].late /\ puts[k].seq = windows[c].newest
       /\ \A j \in DOMAIN puts : j > k => puts[j].channel # c

EmptyIsUnread == \A c \in TextChannels : windows[c].messages = {} => windows[c].newest = 0

MarkInv == LatePrefix /\ MarksInOrder /\ LastMark /\ EmptyIsUnread

(* A step of the client that changes a window, and marks it if it is shown   *)
(* and has another newest message, keeps all of that.                        *)
LEMMA MarksKept ==
  ASSUME MarkersTypeOK, MarkInv, NEW c \in TextChannels, NEW w \in Window, NEW n \in Nat,
         windows' = [windows EXCEPT ![c] = w], puts' = MarksSent(c, w, n), marker' = marker,
         \A d \in TextChannels : clean'[d] => clean[d],
         clean'[c] => windows[c].newest <= w.newest,
         w.messages = {} => w.newest = 0,
         view' \in {view, c, NoChannel},
         (view' = c /\ (view # c \/ w.newest # windows[c].newest)) => n > 0
  PROVE  MarkInv' /\ puts' \in Seq(Put)
<1>0. /\ puts \in Seq(Put) /\ marker \in [TextChannels -> Seqs]
      /\ windows \in [TextChannels -> Window] /\ view \in TextChannels \cup {NoChannel}
  BY DEF MarkersTypeOK, Put
<1>1. /\ puts' \in Seq(Put)
      /\ Len(puts') \in Nat /\ Len(puts) <= Len(puts')
      /\ w.newest # 0 /\ n > 0 => Len(puts') \in DOMAIN puts' \ DOMAIN puts
      /\ n = 0 => Len(puts') = Len(puts)
      /\ \A k \in DOMAIN puts : puts'[k] = puts[k]
      /\ \A k \in DOMAIN puts' \ DOMAIN puts :
           puts'[k].channel = c /\ puts'[k].seq = w.newest /\ ~puts'[k].late
  BY SentLast
<1>2. /\ DOMAIN puts = 1..Len(puts) /\ DOMAIN puts' = 1..Len(puts')
      /\ Len(puts) \in Nat /\ Len(puts') \in Nat /\ Len(puts) <= Len(puts')
      /\ \A k \in DOMAIN puts : puts[k].seq \in Seqs
  <2>1. /\ DOMAIN puts = 1..Len(puts) /\ DOMAIN puts' = 1..Len(puts')
        /\ Len(puts) \in Nat /\ Len(puts') \in Nat /\ \A k \in DOMAIN puts : puts[k] \in Put
    BY <1>0, <1>1
  <2>2. \A r \in Put : r.seq \in Seqs
    BY DEF Put
  <2> QED
    BY <1>1, <2>1, <2>2
<1>3. \A d \in TextChannels : windows'[d] = IF d = c THEN w ELSE windows[d]
  BY <1>0
<1>4. LatePrefix'
  <2> SUFFICES ASSUME NEW j \in DOMAIN puts', NEW k \in DOMAIN puts', j < k,
                      puts'[j].channel = puts'[k].channel, puts'[k].late
               PROVE  puts'[j].late
    BY DEF LatePrefix
  <2>1. k \in DOMAIN puts
    BY <1>1
  <2>2. j \in DOMAIN puts
    BY <1>2, <2>1
  <2> QED
    BY <1>1, <2>1, <2>2 DEF MarkInv, LatePrefix
<1>5. MarksInOrder'
  <2> SUFFICES ASSUME NEW d \in TextChannels, clean'[d]
               PROVE  /\ marker[d] <= windows'[d].newest
                      /\ \A k \in DOMAIN puts' : (puts'[k].channel = d /\ ~puts'[k].late) =>
                           /\ marker[d] <= puts'[k].seq /\ puts'[k].seq <= windows'[d].newest
                           /\ \A j \in DOMAIN puts' : (j > k /\ puts'[j].channel = d)
                                                       => puts'[k].seq <= puts'[j].seq
    BY DEF MarksInOrder
  <2>1. /\ marker[d] \in Seqs /\ windows[d].newest \in Seqs /\ w.newest \in Seqs
        /\ windows[d].newest <= windows'[d].newest /\ windows'[d].newest \in Seqs
    <3>1. \A v \in Window : v.newest \in Seqs
      BY DEF Window
    <3>2. marker[d] \in Seqs /\ windows[d].newest \in Seqs /\ w.newest \in Seqs
      BY <1>0, <3>1
    <3> QED
      BY <1>3, <3>2 DEF Seqs
  <2>2. marker[d] <= windows[d].newest
    BY DEF MarkInv, MarksInOrder
  <2>3. marker[d] <= windows'[d].newest
    BY <1>3, <2>1, <2>2 DEF Seqs
  <2>4. ASSUME NEW k \in DOMAIN puts', puts'[k].channel = d, ~puts'[k].late
        PROVE  marker[d] <= puts'[k].seq /\ puts'[k].seq <= windows'[d].newest
    <3>1. CASE k \in DOMAIN puts
      <4>1. marker[d] <= puts[k].seq /\ puts[k].seq <= windows[d].newest
        BY <1>1, <2>4, <3>1 DEF MarkInv, MarksInOrder
      <4>2. puts[k].seq \in Seqs
        BY <1>2, <3>1
      <4>3. puts[k].seq <= windows'[d].newest
        BY <2>1, <4>1, <4>2 DEF Seqs
      <4> QED
        BY <1>1, <3>1, <4>1, <4>3
    <3>2. CASE k \notin DOMAIN puts
      <4>1. puts'[k].seq = w.newest /\ d = c
        BY <1>1, <2>4, <3>2
      <4>2. puts'[k].seq = windows'[d].newest
        BY <1>3, <4>1
      <4> QED
        BY <2>1, <2>3, <4>2 DEF Seqs
    <3> QED
      BY <3>1, <3>2
  <2>5. ASSUME NEW k \in DOMAIN puts', puts'[k].channel = d, ~puts'[k].late,
               NEW j \in DOMAIN puts', j > k, puts'[j].channel = d
        PROVE  puts'[k].seq <= puts'[j].seq
    <3>1. CASE j \in DOMAIN puts
      <4>1. k \in DOMAIN puts
        BY <1>2, <2>5, <3>1
      <4> QED
        BY <1>1, <2>5, <3>1, <4>1 DEF MarkInv, MarksInOrder
    <3>2. CASE j \notin DOMAIN puts
      <4>1. d = c /\ puts'[j].seq = windows'[d].newest
        BY <1>1, <1>3, <2>5, <3>2
      <4> QED
        BY <2>4, <2>5, <4>1
    <3> QED
      BY <3>1, <3>2
  <2> QED
    BY <2>3, <2>4, <2>5
<1>6. LastMark'
  <2> SUFFICES ASSUME NEW d \in TextChannels, view' = d, clean'[d], windows'[d].newest > 0
               PROVE  \/ /\ marker[d] = windows'[d].newest
                         /\ \A k \in DOMAIN puts' : puts'[k].channel = d => puts'[k].late
                      \/ \E k \in DOMAIN puts' :
                           /\ puts'[k].channel = d /\ ~puts'[k].late
                           /\ puts'[k].seq = windows'[d].newest
                           /\ \A j \in DOMAIN puts' : j > k => puts'[j].channel # d
    BY DEF LastMark
  <2>1. CASE d = c /\ n > 0
    <3>1. w.newest # 0
      BY <1>3, <2>1
    <3>2. Len(puts') \in DOMAIN puts' \ DOMAIN puts
      BY <1>1, <2>1, <3>1
    <3>3. \A j \in DOMAIN puts' : ~(j > Len(puts'))
      BY <1>2
    <3> QED
      BY <1>1, <1>3, <2>1, <3>2, <3>3
  <2>2. CASE ~(d = c /\ n > 0)
    <3>1. view = d /\ clean[d] /\ windows'[d].newest = windows[d].newest
      BY <1>3, <2>2
    <3>2. \A k \in DOMAIN puts' : k \in DOMAIN puts \/ puts'[k].channel # d
      <4>1. CASE d # c
        BY <1>1, <4>1
      <4>2. CASE n = 0
        BY <1>1, <1>2, <4>2
      <4> QED
        BY <2>2, <4>1, <4>2
    <3>3. CASE /\ marker[d] = windows[d].newest
               /\ \A k \in DOMAIN puts : puts[k].channel = d => puts[k].late
      BY <1>1, <3>1, <3>2, <3>3
    <3>4. ASSUME NEW k \in DOMAIN puts, puts[k].channel = d, ~puts[k].late,
                 puts[k].seq = windows[d].newest,
                 \A j \in DOMAIN puts : j > k => puts[j].channel # d
          PROVE  /\ k \in DOMAIN puts' /\ puts'[k].channel = d /\ ~puts'[k].late
                 /\ puts'[k].seq = windows'[d].newest
                 /\ \A j \in DOMAIN puts' : j > k => puts'[j].channel # d
      <4>1. DOMAIN puts \subseteq DOMAIN puts'
        BY <1>2
      <4> QED
        BY <1>1, <3>1, <3>2, <3>4, <4>1
    <3> QED
      BY <3>1, <3>3, <3>4 DEF MarkInv, LastMark
  <2> QED
    BY <2>1, <2>2
<1>7. EmptyIsUnread'
  BY <1>3 DEF MarkInv, EmptyIsUnread
<1> QED
  BY <1>1, <1>4, <1>5, <1>6, <1>7 DEF MarkInv

(* ScrollNotStuck needs that a ChatView that is gone took its flag along.    *)
HiddenIsMounted == view = NoChannel => scroll = Mounted

ReadInv == MarkersTypeOK /\ MarkInv /\ ScrollNotStuck /\ HiddenIsMounted

LEMMA ReadInit == MarkersInit => ReadInv
<1> SUFFICES ASSUME MarkersInit PROVE ReadInv
  OBVIOUS
<1> USE DEF MarkersInit
<1>1. 0 \in Seqs /\ Idle \in Fetch /\ Empty \in Window /\ Mounted \in Scroll
  BY DEF Idle, Fetch, Empty, Window, Mounted, Scroll, Seqs
<1>2. top \in [TextChannels -> Seqs]
  BY DEF Seqs
<1>3. MarkersTypeOK
  BY <1>1, <1>2 DEF MarkersTypeOK
<1>4. \A c \in TextChannels : windows[c].newest = 0 /\ marker[c] = 0
  BY DEF Empty
<1>5. MarkInv
  BY <1>4 DEF MarkInv, LatePrefix, MarksInOrder, LastMark, EmptyIsUnread
<1> QED
  BY <1>3, <1>5 DEF ReadInv, ScrollNotStuck, HiddenIsMounted

(* An update leaves the queue; those of its channel before it may get late.  *)
Old(j, k) == IF j >= k THEN j + 1 ELSE j

QueueLoses(k, late) ==
  puts' = [j \in 1..(Len(puts) - 1) |->
             IF j >= k THEN puts[j + 1]
             ELSE [puts[j] EXCEPT !.late = @ \/ (late /\ puts[j].channel = puts[k].channel)]]

LEMMA QueueWithout ==
  ASSUME MarkersTypeOK, NEW k \in DOMAIN puts, NEW late \in BOOLEAN, QueueLoses(k, late)
  PROVE  /\ puts' \in Seq(Put)
         /\ \A j \in DOMAIN puts' :
              /\ Old(j, k) \in DOMAIN puts \ {k}
              /\ puts'[j].channel = puts[Old(j, k)].channel
              /\ puts'[j].seq = puts[Old(j, k)].seq
              /\ puts'[j].late <=>
                   \/ puts[Old(j, k)].late
                   \/ late /\ j < k /\ puts[Old(j, k)].channel = puts[k].channel
              /\ j < k <=> Old(j, k) < k
              /\ \A i \in DOMAIN puts' : i < j <=> Old(i, k) < Old(j, k)
         /\ \A m \in DOMAIN puts \ {k} : \E j \in DOMAIN puts' : Old(j, k) = m
<1> USE DEF QueueLoses
<1>1. puts \in Seq(Put) /\ DOMAIN puts = 1..Len(puts) /\ Len(puts) \in Nat
  BY DEF MarkersTypeOK, Put
<1>2. \A i \in DOMAIN puts : puts[i] \in Put
  BY <1>1
<1>4. DOMAIN puts' = 1..(Len(puts) - 1) /\ Len(puts) - 1 \in Nat
  BY <1>1
<1>5. ASSUME NEW j \in DOMAIN puts'
      PROVE  /\ Old(j, k) \in DOMAIN puts \ {k}
             /\ j < k <=> Old(j, k) < k
             /\ \A i \in DOMAIN puts' : i < j <=> Old(i, k) < Old(j, k)
  BY <1>1, <1>4 DEF Old
<1>6. ASSUME NEW j \in DOMAIN puts'
      PROVE  /\ puts'[j] \in Put
             /\ puts'[j].channel = puts[Old(j, k)].channel
             /\ puts'[j].seq = puts[Old(j, k)].seq
             /\ puts'[j].late <=>
                  \/ puts[Old(j, k)].late
                  \/ late /\ j < k /\ puts[Old(j, k)].channel = puts[k].channel
  <2>1. CASE j >= k
    <3>1. puts'[j] = puts[Old(j, k)] /\ ~(j < k)
      BY <1>1, <1>4, <2>1 DEF Old
    <3> QED
      BY <1>2, <1>5, <3>1
  <2>2. CASE ~(j >= k)
    <3> DEFINE b == late /\ puts[j].channel = puts[k].channel
    <3>1. Old(j, k) = j /\ j < k /\ puts'[j] = [puts[j] EXCEPT !.late = @ \/ b]
      BY <1>1, <1>4, <2>2 DEF Old
    <3>2. b \in BOOLEAN /\ (b <=> late /\ j < k /\ puts[j].channel = puts[k].channel)
      BY <3>1
    <3> HIDE DEF b
    <3>3. puts[j] \in Put
      BY <1>2, <1>5, <3>1
    <3>4. /\ puts'[j] \in Put /\ puts'[j].channel = puts[j].channel
          /\ puts'[j].seq = puts[j].seq /\ (puts'[j].late <=> puts[j].late \/ b)
      BY <3>1, <3>2, <3>3 DEF Put
    <3> QED
      BY <3>1, <3>2, <3>4
  <2> QED
    BY <2>1, <2>2
<1>7. ASSUME NEW m \in DOMAIN puts \ {k}
      PROVE  \E j \in DOMAIN puts' : Old(j, k) = m
  <2>1. CASE m < k
    BY <1>1, <1>4, <2>1 DEF Old
  <2>2. CASE m > k
    <3>1. m - 1 \in DOMAIN puts' /\ Old(m - 1, k) = m
      BY <1>1, <1>4, <2>2 DEF Old
    <3> QED
      BY <3>1
  <2> QED
    BY <1>1, <2>1, <2>2
<1>8. puts' \in Seq(Put)
  <2>1. puts' = [j \in 1..(Len(puts) - 1) |-> puts'[j]]
    OBVIOUS
  <2> QED
    BY <1>4, <1>6, <2>1
<1> QED
  BY <1>5, <1>6, <1>7, <1>8

(* The queue after an update was stored or lost.  A late one that is stored  *)
(* takes the channel's promise with it; so does one that is lost.            *)
LEMMA UpdateKeeps ==
  ASSUME ReadInv, NEW k \in DOMAIN puts, UpdateLastRead(k) \/ LoseUpdate(k)
  PROVE  ReadInv'
<1> DEFINE c == puts[k].channel
<1>0. /\ puts \in Seq(Put) /\ k \in 1..Len(puts) /\ DOMAIN puts = 1..Len(puts) /\ Len(puts) \in Nat
      /\ puts[k] \in Put /\ c \in TextChannels /\ puts[k].seq \in Seqs
  <2>0. puts \in Seq(Put)
    BY DEF ReadInv, MarkersTypeOK, Put
  <2>1. /\ puts \in Seq(Put) /\ k \in 1..Len(puts) /\ DOMAIN puts = 1..Len(puts) /\ Len(puts) \in Nat
        /\ puts[k] \in Put
    BY <2>0
  <2> QED
    BY <2>1 DEF Put
<1>1. PICK late \in BOOLEAN :
        /\ QueueLoses(k, late)
        /\ late => UpdateLastRead(k)
        /\ ~late => clean' = [clean EXCEPT ![c] = FALSE] /\ marker' = marker
  <2>1. CASE UpdateLastRead(k)
    <3>1. QueueLoses(k, TRUE)
      BY <2>1 DEF UpdateLastRead, QueueLoses
    <3> QED
      BY <2>1, <3>1
  <2>2. CASE LoseUpdate(k)
    <3>1. \A j \in 1..(Len(puts) - 1) :
            puts[j] = [puts[j] EXCEPT !.late = @ \/ (FALSE /\ puts[j].channel = c)]
      <4>1. ASSUME NEW j \in 1..(Len(puts) - 1)
            PROVE  puts[j] = [puts[j] EXCEPT !.late = @ \/ (FALSE /\ puts[j].channel = c)]
        <5>1. puts[j] \in Put
          BY <1>0
        <5> QED
          BY <5>1 DEF Put
      <4> QED
        BY <4>1
    <3>2. QueueLoses(k, FALSE)
      BY <2>2, <3>1 DEF LoseUpdate, QueueLoses
    <3> QED
      BY <2>2, <3>2 DEF LoseUpdate
  <2> QED
    BY <2>1, <2>2
<1>2. /\ puts' \in Seq(Put)
      /\ \A j \in DOMAIN puts' :
           /\ Old(j, k) \in DOMAIN puts \ {k}
           /\ puts'[j].channel = puts[Old(j, k)].channel
           /\ puts'[j].seq = puts[Old(j, k)].seq
           /\ puts'[j].late <=>
                \/ puts[Old(j, k)].late
                \/ late /\ j < k /\ puts[Old(j, k)].channel = c
           /\ j < k <=> Old(j, k) < k
           /\ \A i \in DOMAIN puts' : i < j <=> Old(i, k) < Old(j, k)
      /\ \A m \in DOMAIN puts \ {k} : \E j \in DOMAIN puts' : Old(j, k) = m
  <2>1. MarkersTypeOK
    BY DEF ReadInv
  <2> QED
    BY <1>1, <2>1, QueueWithout
<1>3. /\ windows' = windows /\ view' = view /\ scroll' = scroll /\ fetches' = fetches
      /\ top' = top /\ events' = events
      /\ clean' = [clean EXCEPT ![c] = @ /\ late /\ ~puts[k].late]
      /\ marker' = IF late THEN [marker EXCEPT ![c] = puts[k].seq] ELSE marker
  <2>1. CASE late
    BY <1>1, <2>1 DEF UpdateLastRead
  <2>2. CASE ~late
    BY <1>1, <2>2 DEF UpdateLastRead, LoseUpdate
  <2> QED
    BY <2>1, <2>2
<1>4. MarkersTypeOK'
  BY <1>0, <1>2, <1>3 DEF ReadInv, MarkersTypeOK, Put
<1>5. DOMAIN puts' \subseteq Nat /\ DOMAIN puts \subseteq Nat /\ k \in Nat
  BY <1>0, <1>2
<1>6. /\ clean \in [TextChannels -> BOOLEAN] /\ marker \in [TextChannels -> Seqs]
      /\ LatePrefix /\ MarksInOrder /\ LastMark /\ EmptyIsUnread
  BY DEF ReadInv, MarkersTypeOK, MarkInv
<1> HIDE DEF c
<1>7. \A d \in TextChannels : clean'[d] =>
        /\ clean[d]
        /\ d = c => late /\ ~puts[k].late /\ marker'[d] = puts[k].seq
        /\ d # c => marker'[d] = marker[d]
  BY <1>0, <1>3, <1>6
<1>8. LatePrefix'
  <2> SUFFICES ASSUME NEW i \in DOMAIN puts', NEW j \in DOMAIN puts', i < j,
                      puts'[i].channel = puts'[j].channel, puts'[j].late
               PROVE  puts'[i].late
    BY DEF LatePrefix
  <2>1. CASE puts[Old(j, k)].late
    BY <1>2, <1>6, <2>1 DEF LatePrefix
  <2>2. CASE ~puts[Old(j, k)].late
    <3>1. late /\ j < k /\ puts[Old(j, k)].channel = c
      BY <1>2, <2>2
    <3>2. i < k
      BY <1>5, <3>1
    <3> QED
      BY <1>2, <3>1, <3>2
  <2> QED
    BY <2>1, <2>2
<1>9. MarksInOrder'
  <2> SUFFICES ASSUME NEW d \in TextChannels, clean'[d]
               PROVE  /\ marker'[d] <= windows[d].newest
                      /\ \A j \in DOMAIN puts' : (puts'[j].channel = d /\ ~puts'[j].late) =>
                           /\ marker'[d] <= puts'[j].seq /\ puts'[j].seq <= windows[d].newest
                           /\ \A i \in DOMAIN puts' : (i > j /\ puts'[i].channel = d)
                                                       => puts'[j].seq <= puts'[i].seq
    BY <1>3 DEF MarksInOrder
  <2>1. marker'[d] <= windows[d].newest
    BY <1>0, <1>6, <1>7 DEF MarksInOrder, c
  <2>2. ASSUME NEW j \in DOMAIN puts', puts'[j].channel = d, ~puts'[j].late
        PROVE  /\ marker'[d] <= puts'[j].seq /\ puts'[j].seq <= windows[d].newest
               /\ \A i \in DOMAIN puts' : (i > j /\ puts'[i].channel = d)
                                           => puts'[j].seq <= puts'[i].seq
    <3> DEFINE o == Old(j, k)
    <3>1. /\ o \in DOMAIN puts \ {k} /\ puts[o].channel = d /\ ~puts[o].late
          /\ puts'[j].seq = puts[o].seq
          /\ d = c => o > k
      <4>1. o \in DOMAIN puts \ {k} /\ puts[o].channel = d /\ ~puts[o].late /\ puts'[j].seq = puts[o].seq
        BY <1>2, <2>2
      <4>2. ASSUME d = c PROVE o > k
        <5>1. late
          BY <1>7, <4>2
        <5>2. ~(j < k)
          BY <1>2, <2>2, <4>1, <4>2, <5>1
        <5> QED
          BY <1>2, <1>5, <4>1, <5>2
      <4> QED
        BY <4>1, <4>2
    <3> HIDE DEF o
    <3>2. marker'[d] <= puts[o].seq /\ puts[o].seq <= windows[d].newest
      <4>1. CASE d = c
        BY <1>0, <1>6, <1>7, <3>1, <4>1 DEF MarksInOrder, c
      <4>2. CASE d # c
        BY <1>6, <1>7, <3>1, <4>2 DEF MarksInOrder
      <4> QED
        BY <1>6, <1>7, <3>1, <4>1, <4>2 DEF MarksInOrder
    <3>3. ASSUME NEW i \in DOMAIN puts', i > j, puts'[i].channel = d
          PROVE  puts'[j].seq <= puts'[i].seq
      <4>1. /\ Old(i, k) \in DOMAIN puts /\ Old(i, k) > o /\ puts[Old(i, k)].channel = d
            /\ puts'[i].seq = puts[Old(i, k)].seq
        <5>1. j < i /\ (j < i <=> Old(j, k) < Old(i, k))
          BY <1>2, <1>5, <3>3
        <5>2. Old(i, k) \in DOMAIN puts
          BY <1>2
        <5> QED
          BY <1>2, <1>5, <3>1, <3>3, <5>1, <5>2 DEF o
      <4> QED
        BY <1>6, <1>7, <3>1, <4>1 DEF MarksInOrder
    <3> QED
      BY <3>1, <3>2, <3>3
  <2> QED
    BY <2>1, <2>2
<1>10. LastMark'
  <2> SUFFICES ASSUME NEW d \in TextChannels, view = d, clean'[d], windows[d].newest > 0
               PROVE  \/ /\ marker'[d] = windows[d].newest
                         /\ \A j \in DOMAIN puts' : puts'[j].channel = d => puts'[j].late
                      \/ \E j \in DOMAIN puts' :
                           /\ puts'[j].channel = d /\ ~puts'[j].late
                           /\ puts'[j].seq = windows[d].newest
                           /\ \A i \in DOMAIN puts' : i > j => puts'[i].channel # d
    BY <1>3 DEF LastMark
  <2>1. CASE /\ marker[d] = windows[d].newest
             /\ \A m \in DOMAIN puts : puts[m].channel = d => puts[m].late
    <3>1. d # c
      BY <1>0, <1>7, <2>1 DEF c
    <3> QED
      BY <1>2, <1>7, <2>1, <3>1
  <2>2. ASSUME NEW m \in DOMAIN puts, puts[m].channel = d, ~puts[m].late,
               puts[m].seq = windows[d].newest,
               \A i \in DOMAIN puts : i > m => puts[i].channel # d
        PROVE  \/ /\ marker'[d] = windows[d].newest
                  /\ \A j \in DOMAIN puts' : puts'[j].channel = d => puts'[j].late
               \/ \E j \in DOMAIN puts' :
                    /\ puts'[j].channel = d /\ ~puts'[j].late
                    /\ puts'[j].seq = windows[d].newest
                    /\ \A i \in DOMAIN puts' : i > j => puts'[i].channel # d
    <3>1. CASE m = k
      <4>1. d = c /\ marker'[d] = windows[d].newest /\ late
        BY <1>7, <2>2, <3>1 DEF c
      <4>2. ASSUME NEW j \in DOMAIN puts', puts'[j].channel = d
            PROVE  puts'[j].late
        <5>1. Old(j, k) \in DOMAIN puts \ {k} /\ puts[Old(j, k)].channel = d
          BY <1>2, <4>2
        <5>2. ~(Old(j, k) > k)
          BY <2>2, <3>1, <5>1
        <5>3. Old(j, k) < k
          BY <1>5, <5>1, <5>2
        <5> QED
          BY <1>2, <4>1, <5>1, <5>3
      <4> QED
        BY <4>1, <4>2
    <3>2. CASE m # k
      <4>1. PICK j \in DOMAIN puts' : Old(j, k) = m
        BY <1>2, <3>2
      <4>2. puts'[j].channel = d /\ puts'[j].seq = windows[d].newest
        BY <1>2, <2>2, <4>1
      <4>3. ~puts'[j].late
        <5>1. d # c \/ ~(j < k)
          <6>1. ASSUME d = c, j < k PROVE FALSE
            <7>1. m < k
              BY <1>2, <4>1, <6>1
            <7>2. k > m
              BY <1>5, <7>1
            <7> QED
              BY <2>2, <6>1, <7>2 DEF c
          <6> QED
            BY <6>1
        <5> QED
          BY <1>2, <2>2, <4>1, <5>1
      <4>4. ASSUME NEW i \in DOMAIN puts', i > j PROVE puts'[i].channel # d
        <5>1. j < i /\ (j < i <=> m < Old(i, k))
          BY <1>2, <1>5, <4>1, <4>4
        <5>2. Old(i, k) \in DOMAIN puts /\ puts'[i].channel = puts[Old(i, k)].channel
          BY <1>2
        <5>3. Old(i, k) > m
          BY <1>5, <5>1, <5>2
        <5> QED
          BY <2>2, <5>2, <5>3
      <4> QED
        BY <4>2, <4>3, <4>4
    <3> QED
      BY <3>1, <3>2
  <2>3. clean[d]
    BY <1>7
  <2> QED
    BY <1>6, <2>1, <2>2, <2>3 DEF LastMark
<1>11. EmptyIsUnread' /\ ScrollNotStuck' /\ HiddenIsMounted'
  BY <1>3, <1>6 DEF ReadInv, EmptyIsUnread, ScrollNotStuck, HiddenIsMounted
<1> QED
  BY <1>4, <1>8, <1>9, <1>10, <1>11 DEF ReadInv, MarkInv

LEMMA SameMarks ==
  ASSUME MarkInv, UNCHANGED <<puts, windows>>, view' \in {view, NoChannel},
         \A d \in TextChannels : clean'[d] => clean[d] /\ marker'[d] = marker[d]
  PROVE  MarkInv'
<1>1. LatePrefix' /\ EmptyIsUnread'
  BY DEF MarkInv, LatePrefix, EmptyIsUnread
<1>2. MarksInOrder'
  BY DEF MarkInv, MarksInOrder
<1>3. LastMark'
  BY DEF MarkInv, LastMark
<1> QED
  BY <1>1, <1>2, <1>3 DEF MarkInv

LEMMA ServerKeeps ==
  ASSUME ReadInv, NEW c \in TextChannels, Create(c) \/ OtherDevice(c)
  PROVE  ReadInv'
<1> USE DEF ReadInv, MarkersTypeOK
<1>1. CASE Create(c)
  <2>1. top[c] + 1 \in Seqs
    BY <1>1 DEF Create, Seqs
  <2>2. MarkersTypeOK'
    BY <1>1, <2>1 DEF Create
  <2>3. MarkInv'
    BY <1>1, SameMarks DEF Create
  <2> QED
    BY <1>1, <2>2, <2>3 DEF Create, ScrollNotStuck, HiddenIsMounted
<1>2. CASE OtherDevice(c)
  <2>1. PICK i \in 1..top[c] : marker' = [marker EXCEPT ![c] = i]
    BY <1>2 DEF OtherDevice
  <2>2. i \in Seqs
    BY DEF Seqs
  <2>3. MarkersTypeOK'
    BY <1>2, <2>1, <2>2 DEF OtherDevice
  <2>4. /\ UNCHANGED <<puts, windows, view, scroll>>
        /\ \A d \in TextChannels : clean'[d] => clean[d] /\ marker'[d] = marker[d]
    BY <1>2, <2>1 DEF OtherDevice
  <2>5. MarkInv'
    BY <2>4, SameMarks
  <2> QED
    BY <2>3, <2>4, <2>5 DEF ScrollNotStuck, HiddenIsMounted
<1> QED
  BY <1>1, <1>2

(* The steps that only move requests, events and the panel.                  *)
LEMMA QuietKeeps ==
  ASSUME ReadInv, NEW c \in TextChannels, NEW k \in Kinds, NEW i \in Seqs,
         \/ Prefetch(c) \/ GetLastRead(c) \/ ReadPage(c, k) \/ Miss(c, i) \/ Close
         \/ UNCHANGED markerVars
  PROVE  ReadInv'
<1>1. MarkersTypeOK' /\ UNCHANGED <<marker, puts, windows, clean>>
  <2> USE DEF ReadInv, MarkersTypeOK
  <2>0. /\ "first" \in Kinds /\ "prefetch" \in Kinds
        /\ fetches[c]["prefetch"] \in Fetch /\ fetches[c]["first"] \in Fetch /\ fetches[c][k] \in Fetch
    BY DEF Kinds
  <2>1. CASE Prefetch(c)
    <3>1. [fetches[c]["prefetch"] EXCEPT !.pc = "asked"] \in Fetch
      BY <2>0 DEF Fetch
    <3> QED
      BY <2>0, <2>1, <3>1 DEF Prefetch
  <2>2. CASE GetLastRead(c)
    <3>1. PICK last \in {marker[c], 0} :
            fetches' = [fetches EXCEPT ![c]["first"].pc = "marked", ![c]["first"].last = last]
      BY <2>2 DEF GetLastRead
    <3>2. last \in Seqs
      BY DEF Seqs
    <3>3. [fetches[c]["first"] EXCEPT !.pc = "marked", !.last = last] \in Fetch
      BY <2>0, <3>2 DEF Fetch
    <3>4. fetches' = [fetches EXCEPT ![c]["first"] =
                        [fetches[c]["first"] EXCEPT !.pc = "marked", !.last = last]]
      BY <2>0, <3>1
    <3> QED
      BY <2>0, <2>2, <3>3, <3>4 DEF GetLastRead
  <2>3. CASE ReadPage(c, k)
    <3>1. \A page \in SUBSET Seqs, more \in BOOLEAN :
            [fetches[c][k] EXCEPT !.pc = "read", !.page = page, !.more = more] \in Fetch
      BY <2>0 DEF Fetch
    <3> DEFINE rows == Below(c, fetches[c][k].before)
               page == {j \in rows : Cardinality({m \in rows : m > j}) < PageSize}
               more == Cardinality(rows) > PageSize
    <3>2. rows \subseteq Seqs
      BY DEF Below, Seqs
    <3>3. page \in SUBSET Seqs /\ more \in BOOLEAN
      BY <3>2
    <3>4. fetches' = [fetches EXCEPT ![c][k] =
                        [fetches[c][k] EXCEPT !.pc = "read", !.page = page, !.more = more]]
      BY <2>3 DEF ReadPage
    <3> HIDE DEF page, more
    <3>5. fetches' \in [TextChannels -> [Kinds -> Fetch]]
      BY <3>1, <3>3, <3>4
    <3> QED
      BY <2>3, <3>5 DEF ReadPage
  <2>4. CASE Miss(c, i) \/ Close \/ UNCHANGED markerVars
    <3>1. Mounted \in Scroll
      BY DEF Mounted, Scroll
    <3> QED
      BY <2>4, <3>1 DEF Miss, Close, markerVars
  <2> QED
    BY <2>1, <2>2, <2>3, <2>4
<1>2. (view' = view /\ scroll' = scroll) \/ (view' = NoChannel /\ scroll' = Mounted)
  BY DEF Prefetch, GetLastRead, ReadPage, Miss, Close, markerVars
<1>3. MarkInv'
  BY <1>1, <1>2, SameMarks DEF ReadInv
<1>4. ScrollNotStuck' /\ HiddenIsMounted'
  BY <1>1, <1>2 DEF ReadInv, ScrollNotStuck, HiddenIsMounted
<1> QED
  BY <1>1, <1>3, <1>4 DEF ReadInv

(* The user opens a channel, marks one as read, or scrolls.                  *)
LEMMA ViewKeeps ==
  ASSUME ReadInv, NEW c \in TextChannels, NEW atBottom \in BOOLEAN, NEW nearTop \in BOOLEAN,
         \/ Open(c) \/ MarkAsRead(c) \/ (view = c /\ HandleScroll(atBottom, nearTop))
  PROVE  ReadInv'
<1> USE DEF ReadInv
<1> DEFINE w == windows[c]
<1>0. /\ w \in Window /\ scroll \in Scroll /\ windows \in [TextChannels -> Window]
      /\ w.newest \in Seqs /\ w.loading \in BOOLEAN /\ w.oldest \in Seqs
  BY DEF MarkersTypeOK, Window
<1>1. ASSUME NEW n \in Nat, NEW loading \in BOOLEAN,
             windows' = [windows EXCEPT ![c] = [Marked(w, n) EXCEPT !.loading = loading]],
             puts' = MarksSent(c, w, n), marker' = marker, clean' = clean,
             view' \in {view, c}, view # c /\ view' = c => n > 0
      PROVE  /\ MarkInv' /\ puts' \in Seq(Put) /\ windows' \in [TextChannels -> Window]
             /\ windows'[c].loading = loading
  <2> DEFINE v == [Marked(w, n) EXCEPT !.loading = loading]
  <2>1. v \in Window /\ v.newest = w.newest /\ v.messages = w.messages /\ v.loading = loading
    <3>1. Marked(w, n) \in Window /\ Marked(w, n).newest = w.newest /\ Marked(w, n).messages = w.messages
      BY <1>0, MarkedIsWindow
    <3> QED
      BY <3>1 DEF Window
  <2>2. puts' = MarksSent(c, v, n)
    BY <1>1, <2>1 DEF MarksSent
  <2>3. w.messages = {} => w.newest = 0
    BY DEF MarkInv, EmptyIsUnread
  <2>4. windows' = [windows EXCEPT ![c] = v] /\ windows[c].newest <= v.newest
    BY <1>0, <1>1, <2>1 DEF Seqs
  <2> HIDE DEF v
  <2>5. /\ view' \in {view, c, NoChannel}
        /\ view' = c /\ (view # c \/ v.newest # windows[c].newest) => n > 0
    BY <1>1, <2>1
  <2>6. \A d \in TextChannels : clean'[d] => clean[d]
    BY <1>1
  <2>7. v \in Window /\ (v.messages = {} => v.newest = 0)
    BY <2>1, <2>3
  <2>8. MarkInv' /\ puts' \in Seq(Put)
    BY <1>1, <2>2, <2>4, <2>5, <2>6, <2>7, MarksKept
  <2> QED
    BY <1>0, <2>1, <2>4, <2>8
<1>2. CASE Open(c)
  <2> DEFINE mounted == view # NoChannel
             longer == mounted /\ Count(c) > Count(view)
             n == 2 + Times(longer /\ scroll.atBottom)
             loading == w.loading \/ Loads(c)
             changed == mounted /\ windows[view].loading # w.loading
  <2>1. /\ view # c /\ view' = c
        /\ windows' = [windows EXCEPT ![c] = [Marked(w, n) EXCEPT !.loading = @ \/ Loads(c)]]
        /\ puts' = MarksSent(c, w, n)
        /\ fetches' = IF Loads(c) THEN [fetches EXCEPT ![c]["first"].pc = "asked"] ELSE fetches
        /\ scroll' = [atBottom |-> scroll.atBottom \/ (Count(c) > 0 /\ ~w.loading),
                      older |-> scroll.older /\ (changed => w.loading)]
        /\ UNCHANGED <<top, events, marker, clean>>
    BY <1>2 DEF Open
  <2>2. n \in Nat /\ n > 0 /\ loading \in BOOLEAN
    BY <1>0 DEF Times, Loads
  <2>3. Marked(w, n).loading = w.loading
    BY <1>0, <2>2, MarkedIsWindow
  <2>4. windows' = [windows EXCEPT ![c] = [Marked(w, n) EXCEPT !.loading = loading]]
    BY <2>1, <2>3
  <2>5. scroll' \in Scroll
    BY <1>0, <2>1 DEF Scroll
  <2>6. fetches' \in [TextChannels -> [Kinds -> Fetch]]
    <3>1. "first" \in Kinds /\ fetches[c]["first"] \in Fetch
      BY DEF MarkersTypeOK, Kinds
    <3>2. [fetches[c]["first"] EXCEPT !.pc = "asked"] \in Fetch
      BY <3>1 DEF Fetch
    <3> QED
      BY <2>1, <3>1, <3>2 DEF MarkersTypeOK
  <2> HIDE DEF n, loading
  <2>7. /\ MarkInv' /\ puts' \in Seq(Put) /\ windows' \in [TextChannels -> Window]
        /\ windows'[c].loading = loading
    BY <1>1, <2>1, <2>2, <2>4
  <2>8. MarkersTypeOK'
    BY <2>1, <2>5, <2>6, <2>7 DEF MarkersTypeOK, Put
  <2>9. scroll'.older => w.loading
    BY <1>0, <2>1 DEF ScrollNotStuck, HiddenIsMounted, Mounted
  <2>10. ScrollNotStuck' /\ HiddenIsMounted'
    BY <2>1, <2>7, <2>9 DEF ScrollNotStuck, HiddenIsMounted, loading
  <2> QED
    BY <2>7, <2>8, <2>10
<1>3. CASE MarkAsRead(c)
  <2>1. /\ windows' = [windows EXCEPT ![c] = Marked(w, 1)]
        /\ puts' = MarksSent(c, w, 1)
        /\ UNCHANGED <<top, events, marker, fetches, view, scroll, clean>>
    BY <1>3 DEF MarkAsRead
  <2>2. Marked(w, 1) = [Marked(w, 1) EXCEPT !.loading = w.loading]
    <3>1. Marked(w, 1) \in Window /\ Marked(w, 1).loading = w.loading
      BY <1>0, MarkedIsWindow
    <3> QED
      BY <3>1 DEF Window
  <2>3. /\ MarkInv' /\ puts' \in Seq(Put) /\ windows' \in [TextChannels -> Window]
        /\ windows'[c].loading = w.loading
    BY <1>0, <1>1, <2>1, <2>2
  <2>4. MarkersTypeOK'
    BY <2>1, <2>3 DEF MarkersTypeOK, Put
  <2>5. \A d \in TextChannels : windows'[d].loading = windows[d].loading
    BY <1>0, <2>1, <2>3
  <2>6. ScrollNotStuck' /\ HiddenIsMounted'
    BY <2>1, <2>4, <2>5 DEF ScrollNotStuck, HiddenIsMounted, MarkersTypeOK
  <2> QED
    BY <2>3, <2>4, <2>6
<1>4. CASE view = c /\ HandleScroll(atBottom, nearTop)
  <2> DEFINE loads == nearTop /\ w.hasMore /\ ~w.loading /\ ~scroll.older
             n == Times(atBottom)
             loading == w.loading \/ loads
  <2>1. /\ view' = view
        /\ windows' = [windows EXCEPT ![c] = [Marked(w, n) EXCEPT !.loading = @ \/ loads]]
        /\ puts' = MarksSent(c, w, n)
        /\ fetches' = IF loads THEN [fetches EXCEPT ![c]["older"] =
                                       [Idle EXCEPT !.pc = "asked", !.before = w.oldest]]
                      ELSE fetches
        /\ scroll' = [scroll EXCEPT !.atBottom = atBottom, !.older = @ \/ loads]
        /\ UNCHANGED <<top, events, marker, clean>>
    BY <1>4 DEF HandleScroll
  <2>2. n \in Nat /\ loading \in BOOLEAN
    BY <1>0 DEF Times
  <2>3. Marked(w, n).loading = w.loading
    BY <1>0, <2>2, MarkedIsWindow
  <2>4. windows' = [windows EXCEPT ![c] = [Marked(w, n) EXCEPT !.loading = loading]]
    BY <2>1, <2>3
  <2>5. scroll' \in Scroll /\ (scroll'.older <=> scroll.older \/ loads)
    BY <1>0, <2>1 DEF Scroll
  <2>6. fetches' \in [TextChannels -> [Kinds -> Fetch]]
    <3>1. [Idle EXCEPT !.pc = "asked", !.before = w.oldest] \in Fetch
      <4>1. 0 \in Seqs
        BY DEF Seqs
      <4> QED
        BY <1>0, <4>1 DEF Idle, Fetch
    <3> QED
      BY <2>1, <3>1 DEF MarkersTypeOK, Kinds
  <2> HIDE DEF n
  <2>7. /\ MarkInv' /\ puts' \in Seq(Put) /\ windows' \in [TextChannels -> Window]
        /\ windows'[c].loading = loading
    BY <1>1, <1>4, <2>1, <2>2, <2>4
  <2>8. MarkersTypeOK'
    BY <2>1, <2>5, <2>6, <2>7 DEF MarkersTypeOK, Put
  <2>9. ScrollNotStuck' /\ HiddenIsMounted'
    BY <1>4, <2>1, <2>5, <2>7 DEF ScrollNotStuck, HiddenIsMounted
  <2> QED
    BY <2>7, <2>8, <2>9
<1> QED
  BY <1>2, <1>3, <1>4

(* A message or a page changes a window, with the effects that follow.       *)
LEMMA ChangeKeeps ==
  ASSUME ReadInv, NEW c \in TextChannels, NEW w \in Window, Change(c, w),
         marker' = marker, view' = view,
         \A d \in TextChannels : clean'[d] => clean[d],
         clean'[c] => windows[c].newest <= w.newest,
         w.messages = {} => w.newest = 0
  PROVE  /\ puts' \in Seq(Put) /\ windows' \in [TextChannels -> Window] /\ scroll' \in Scroll
         /\ MarkInv' /\ ScrollNotStuck' /\ HiddenIsMounted'
<1> USE DEF ReadInv
<1>0. windows \in [TextChannels -> Window]
  BY DEF MarkersTypeOK
<1>1. PICK v \in Window, n \in Nat :
        /\ windows' = [windows EXCEPT ![c] = v]
        /\ v.newest = w.newest /\ v.messages = w.messages /\ v.loading = w.loading
        /\ puts' = MarksSent(c, v, n)
        /\ (view = c /\ w.newest # windows[c].newest) => n > 0
        /\ scroll' \in Scroll
        /\ view # c => scroll' = scroll
        /\ scroll'.older => scroll.older /\ (view = c => windows[c].loading = w.loading \/ w.loading)
  BY ChangeMarks
<1>2. MarkInv' /\ puts' \in Seq(Put)
  <2>1. /\ view' \in {view, c, NoChannel}
        /\ view' = c /\ (view # c \/ v.newest # windows[c].newest) => n > 0
        /\ v.messages = {} => v.newest = 0
        /\ clean'[c] => windows[c].newest <= v.newest
    BY <1>1
  <2> QED
    BY <1>1, <2>1, MarksKept
<1>3. ScrollNotStuck'
  <2>1. CASE view = c
    BY <1>0, <1>1, <2>1 DEF ScrollNotStuck
  <2>2. CASE view # c
    BY <1>0, <1>1, <2>2 DEF ScrollNotStuck
  <2> QED
    BY <2>1, <2>2
<1>4. HiddenIsMounted'
  BY <1>1 DEF HiddenIsMounted
<1> QED
  BY <1>0, <1>1, <1>2, <1>3, <1>4

LEMMA DeliverKeeps ==
  ASSUME ReadInv, NEW c \in TextChannels, NEW i \in Seqs, Deliver(c, i)
  PROVE  ReadInv'
<1> USE DEF ReadInv
<1>0. windows[c] \in Window /\ clean \in [TextChannels -> BOOLEAN]
  BY DEF MarkersTypeOK
<1>1. CASE i \in windows[c].messages
  <2>1. MarkersTypeOK' /\ UNCHANGED <<marker, puts, windows, view, scroll, clean>>
    BY <1>1 DEF Deliver, MarkersTypeOK
  <2>2. MarkInv'
    BY <2>1, SameMarks
  <2> QED
    BY <2>1, <2>2 DEF ScrollNotStuck, HiddenIsMounted
<1>2. CASE i \notin windows[c].messages
  <2> DEFINE w == [windows[c] EXCEPT !.messages = @ \cup {i}, !.newest = i,
                                     !.oldest = IF windows[c].messages = {} THEN i ELSE @]
  <2>1. /\ Change(c, w)
        /\ clean' = [clean EXCEPT ![c] = @ /\ i >= windows[c].newest]
        /\ UNCHANGED <<top, marker, fetches, view>>
        /\ events' \subseteq events
    BY <1>2 DEF Deliver
  <2>2. w \in Window /\ w.newest = i /\ w.messages # {} /\ windows[c].newest \in Seqs
    BY <1>0 DEF Window
  <2>3. /\ clean' \in [TextChannels -> BOOLEAN] /\ \A d \in TextChannels : clean'[d] => clean[d]
        /\ clean'[c] => windows[c].newest <= w.newest
    BY <1>0, <2>1, <2>2 DEF Seqs
  <2> HIDE DEF w
  <2>4. /\ puts' \in Seq(Put) /\ windows' \in [TextChannels -> Window] /\ scroll' \in Scroll
        /\ MarkInv' /\ ScrollNotStuck' /\ HiddenIsMounted'
    BY <2>1, <2>2, <2>3, ChangeKeeps
  <2>5. MarkersTypeOK'
    BY <2>1, <2>3, <2>4 DEF MarkersTypeOK, Put
  <2> QED
    BY <2>4, <2>5
<1> QED
  BY <1>1, <1>2

(* A page is put into its window, or does not come.                          *)
LEMMA PageKeeps ==
  ASSUME ReadInv, NEW c \in TextChannels, NEW k \in Kinds,
         ApplyFirst(c) \/ ApplyOlder(c) \/ ApplyPrefetch(c) \/ FetchFails(c, k)
  PROVE  ReadInv'
<1> USE DEF ReadInv
<1> DEFINE w == windows[c]
<1>0. /\ w \in Window /\ windows \in [TextChannels -> Window]
      /\ clean \in [TextChannels -> BOOLEAN]
      /\ w.newest \in Seqs /\ w.messages \in SUBSET Seqs
      /\ fetches \in [TextChannels -> [Kinds -> Fetch]]
      /\ Idle \in Fetch
  <2>1. Idle \in Fetch
    BY DEF Idle, Fetch, Seqs
  <2> QED
    BY <2>1 DEF MarkersTypeOK, Window
<1>1. \A f \in Fetch : f.page \in SUBSET Seqs /\ f.more \in BOOLEAN /\ f.last \in Seqs
  BY DEF Fetch
<1>2. ASSUME NEW v \in Window, Change(c, v),
             v.messages = {} => v.newest = 0,
             clean' \in [TextChannels -> BOOLEAN],
             \A d \in TextChannels : clean'[d] => clean[d],
             clean'[c] => w.newest <= v.newest,
             fetches' \in [TextChannels -> [Kinds -> Fetch]],
             UNCHANGED <<top, events, marker, view>>
      PROVE  ReadInv'
  <2>1. /\ puts' \in Seq(Put) /\ windows' \in [TextChannels -> Window] /\ scroll' \in Scroll
        /\ MarkInv' /\ ScrollNotStuck' /\ HiddenIsMounted'
    BY <1>2, ChangeKeeps
  <2>2. MarkersTypeOK'
    BY <1>2, <2>1 DEF MarkersTypeOK, Put
  <2> QED
    BY <2>1, <2>2
<1>3. ASSUME NEW kind \in Kinds, fetches' = [fetches EXCEPT ![c][kind] = Idle],
             UNCHANGED <<top, events, marker, puts, windows, view, scroll, clean>>
      PROVE  ReadInv'
  <2>1. MarkersTypeOK'
    BY <1>0, <1>3 DEF MarkersTypeOK
  <2>2. MarkInv'
    BY <1>3, SameMarks
  <2> QED
    BY <1>3, <2>1, <2>2 DEF ScrollNotStuck, HiddenIsMounted
<1>4. \A kind \in Kinds : fetches' = [fetches EXCEPT ![c][kind] = Idle]
                           => fetches' \in [TextChannels -> [Kinds -> Fetch]]
  BY <1>0
<1>5. CASE ApplyFirst(c)
  <2> DEFINE f == fetches[c]["first"]
             v == [messages |-> f.page, oldest |-> Least(f.page), newest |-> Greatest(f.page),
                   hasMore |-> f.more, lastRead |-> f.last, loading |-> FALSE]
  <2>1. "first" \in Kinds /\ f \in Fetch
    BY <1>0 DEF Kinds
  <2>2. v \in Window /\ v.newest \in Seqs
    BY <1>1, <2>1, ExtremesAreSeqs DEF Window
  <2>3. v.messages = {} => v.newest = 0
    BY DEF Greatest
  <2>4. /\ Change(c, v) /\ fetches' = [fetches EXCEPT ![c]["first"] = Idle]
        /\ clean' = [clean EXCEPT ![c] = @ /\ v.newest >= w.newest]
        /\ UNCHANGED <<top, events, marker, view>>
    BY <1>5 DEF ApplyFirst
  <2> HIDE DEF v
  <2>5. /\ clean' \in [TextChannels -> BOOLEAN] /\ \A d \in TextChannels : clean'[d] => clean[d]
        /\ clean'[c] => w.newest <= v.newest
    BY <1>0, <2>2, <2>4 DEF Seqs
  <2> QED
    BY <1>2, <1>4, <2>1, <2>2, <2>3, <2>4, <2>5
<1>6. CASE ApplyOlder(c)
  <2> DEFINE f == fetches[c]["older"]
             fresh == f.page \ w.messages
             v == [w EXCEPT !.messages = @ \cup f.page,
                            !.oldest = IF fresh = {} THEN @ ELSE Least(fresh),
                            !.hasMore = f.more, !.loading = FALSE]
  <2>1. "older" \in Kinds /\ f \in Fetch
    BY <1>0 DEF Kinds
  <2>2. Least(fresh) \in Seqs
    BY <1>1, <2>1, ExtremesAreSeqs
  <2>3. v \in Window /\ v.newest = w.newest /\ (v.messages = {} => w.messages = {})
    BY <1>0, <1>1, <2>1, <2>2 DEF Window
  <2>4. /\ Change(c, v) /\ fetches' = [fetches EXCEPT ![c]["older"] = Idle]
        /\ UNCHANGED <<top, events, marker, view, clean>>
    BY <1>6 DEF ApplyOlder
  <2>5. v.messages = {} => v.newest = 0
    BY <2>3 DEF MarkInv, EmptyIsUnread
  <2> HIDE DEF v
  <2>6. w.newest <= v.newest
    BY <1>0, <2>3 DEF Seqs
  <2> QED
    BY <1>0, <1>2, <1>4, <2>1, <2>3, <2>4, <2>5, <2>6
<1>7. CASE ApplyPrefetch(c)
  <2> DEFINE f == fetches[c]["prefetch"]
             v == [messages |-> f.page, oldest |-> Least(f.page), newest |-> Greatest(f.page),
                   hasMore |-> TRUE, lastRead |-> 0, loading |-> FALSE]
  <2>1. "prefetch" \in Kinds /\ f \in Fetch /\ 0 \in Seqs
    BY <1>0 DEF Kinds, Seqs
  <2>2. /\ fetches' = [fetches EXCEPT ![c]["prefetch"] = Idle]
        /\ UNCHANGED <<top, events, marker, view, clean>>
        /\ IF w.messages # {} THEN UNCHANGED <<windows, puts, scroll>> ELSE Change(c, v)
    BY <1>7 DEF ApplyPrefetch
  <2>3. CASE w.messages # {}
    BY <1>3, <2>1, <2>2, <2>3
  <2>4. CASE w.messages = {}
    <3>1. v \in Window /\ v.newest \in Seqs
      BY <1>1, <2>1, ExtremesAreSeqs DEF Window
    <3>2. v.messages = {} => v.newest = 0
      BY DEF Greatest
    <3>3. Change(c, v)
      BY <2>2, <2>4
    <3>4. w.newest = 0
      BY <2>4 DEF MarkInv, EmptyIsUnread
    <3> HIDE DEF v
    <3>5. w.newest <= v.newest
      BY <3>1, <3>4 DEF Seqs
    <3> QED
      BY <1>0, <1>2, <1>4, <2>1, <2>2, <3>1, <3>2, <3>3, <3>5
  <2> QED
    BY <2>3, <2>4
<1>8. CASE FetchFails(c, k)
  <2>1. /\ fetches' = [fetches EXCEPT ![c][k] = Idle]
        /\ UNCHANGED <<top, events, marker, view, clean>>
    BY <1>8 DEF FetchFails
  <2>2. CASE k = "prefetch"
    BY <1>3, <1>8, <2>1, <2>2 DEF FetchFails
  <2>3. CASE k # "prefetch"
    <3> DEFINE v == [w EXCEPT !.loading = FALSE]
    <3>1. v \in Window /\ v.newest = w.newest /\ v.messages = w.messages
      BY <1>0 DEF Window
    <3>2. Change(c, v)
      BY <1>8, <2>3 DEF FetchFails
    <3>3. v.messages = {} => v.newest = 0
      BY <3>1 DEF MarkInv, EmptyIsUnread
    <3>4. w.newest <= v.newest
      BY <1>0, <3>1 DEF Seqs
    <3> HIDE DEF v
    <3> QED
      BY <1>0, <1>2, <1>4, <2>1, <3>1, <3>2, <3>3, <3>4
  <2> QED
    BY <2>2, <2>3
<1> QED
  BY <1>5, <1>6, <1>7, <1>8

LEMMA ReadStep == ReadInv /\ [MarkersNext]_markerVars => ReadInv'
<1> SUFFICES ASSUME ReadInv, [MarkersNext]_markerVars PROVE ReadInv'
  OBVIOUS
<1>1. CASE ServerStep
  BY <1>1, ServerKeeps, UpdateKeeps DEF ServerStep
<1>2. CASE ViewStep
  <2>1. ASSUME NEW c \in TextChannels, Open(c) \/ MarkAsRead(c) PROVE ReadInv'
    BY <2>1, ViewKeeps
  <2>2. ASSUME NEW atBottom \in BOOLEAN, NEW nearTop \in BOOLEAN, HandleScroll(atBottom, nearTop)
        PROVE  ReadInv'
    <3>1. view \in TextChannels
      BY <2>2 DEF HandleScroll, ReadInv, MarkersTypeOK
    <3> QED
      BY <2>2, <3>1, ViewKeeps
  <2>3. ASSUME NEW c \in TextChannels, NEW i \in Seqs, Deliver(c, i) \/ Miss(c, i) PROVE ReadInv'
    <3>1. "first" \in Kinds
      BY DEF Kinds
    <3> QED
      BY <2>3, <3>1, DeliverKeeps, QuietKeeps
  <2>4. CASE Close
    <3>1. view \in TextChannels /\ "first" \in Kinds /\ 0 \in Seqs
      BY <2>4 DEF Close, ReadInv, MarkersTypeOK, Kinds, Seqs
    <3> QED
      BY <2>4, <3>1, QuietKeeps
  <2> QED
    BY <1>2, <2>1, <2>2, <2>3, <2>4 DEF ViewStep
<1>3. CASE PageStep
  <2>1. "first" \in Kinds /\ 0 \in Seqs
    BY DEF Kinds, Seqs
  <2> QED
    BY <1>3, <2>1, PageKeeps, QuietKeeps DEF PageStep
<1>4. CASE UNCHANGED markerVars
  BY <1>4, SameMarks DEF markerVars, ReadInv, MarkersTypeOK, ScrollNotStuck, HiddenIsMounted
<1> QED
  BY <1>1, <1>2, <1>3, <1>4 DEF MarkersNext

(* Type correctness of the markers, for any channels, rows and bounds.       *)
THEOREM MarkersTypeCorrect == MarkersSpec => []MarkersTypeOK
<1>1. ReadInv => MarkersTypeOK
  BY DEF ReadInv
<1> QED
  BY <1>1, ReadInit, ReadStep, PTL DEF MarkersSpec

(* A channel shown at its bottom is read up to its newest message once the   *)
(* updates of it are stored, for any number of updates that pass each other. *)
(* The invariant behind it holds at any place, as useMessages marks at any.  *)
THEOREM BottomIsAlwaysRead == MarkersSpec => []BottomIsRead
<1>1. ReadInv => BottomIsRead
  BY DEF ReadInv, MarkInv, LastMark, BottomIsRead
<1> QED
  BY <1>1, ReadInit, ReadStep, PTL DEF MarkersSpec

(* The flag of the scroll handler is set only while the channel shown loads. *)
THEOREM ScrollNeverStuck == MarkersSpec => []ScrollNotStuck
<1>1. ReadInv => ScrollNotStuck
  BY DEF ReadInv
<1> QED
  BY <1>1, ReadInit, ReadStep, PTL DEF MarkersSpec

(* The stored marker goes back only for the causes that `clean` names.       *)
THEOREM MarkersAdvance == MarkersSpec => MarkerAdvances
<1> DEFINE Advances == \A c \in TextChannels : clean'[c] => marker'[c] >= marker[c]
<1>1. ReadInv /\ [MarkersNext]_markerVars => [Advances]_markerVars
  <2> SUFFICES ASSUME ReadInv, MarkersNext, NEW c \in TextChannels, clean'[c]
               PROVE  marker'[c] >= marker[c]
    BY DEF Advances
  <2>1. /\ marker \in [TextChannels -> Seqs] /\ clean \in [TextChannels -> BOOLEAN]
        /\ MarksInOrder
    BY DEF ReadInv, MarkersTypeOK, MarkInv
  <2>2. ASSUME marker' = marker PROVE marker'[c] >= marker[c]
    BY <2>1, <2>2 DEF Seqs
  <2>3. ASSUME NEW k \in DOMAIN puts, UpdateLastRead(k) PROVE marker'[c] >= marker[c]
    <3>1. /\ marker' = [marker EXCEPT ![puts[k].channel] = puts[k].seq]
          /\ clean' = [clean EXCEPT ![puts[k].channel] = @ /\ ~puts[k].late]
      BY <2>3 DEF UpdateLastRead
    <3>2. CASE c = puts[k].channel
      <4>1. clean[c] /\ ~puts[k].late /\ marker'[c] = puts[k].seq
        BY <2>1, <3>1, <3>2
      <4>2. marker[c] <= puts[k].seq
        BY <2>1, <3>2, <4>1 DEF MarksInOrder
      <4>3. puts \in Seq(Put)
        BY DEF ReadInv, MarkersTypeOK, Put
      <4>4. puts[k].seq \in Seqs
        <5>1. puts[k] \in Put
          BY <4>3
        <5> QED
          BY <5>1 DEF Put
      <4> QED
        BY <2>1, <4>1, <4>2, <4>4 DEF Seqs
    <3>3. CASE c # puts[k].channel
      BY <2>1, <3>1, <3>3 DEF Seqs
    <3> QED
      BY <3>2, <3>3
  <2>4. ASSUME NEW d \in TextChannels, OtherDevice(d) PROVE marker'[c] >= marker[c]
    <3>1. c # d
      BY <2>1, <2>4 DEF OtherDevice
    <3>2. marker'[c] = marker[c]
      BY <2>1, <2>4, <3>1 DEF OtherDevice
    <3> QED
      BY <2>1, <3>2 DEF Seqs
  <2>5. CASE ServerStep
    BY <2>2, <2>3, <2>4, <2>5 DEF ServerStep, Create, LoseUpdate
  <2>6. CASE ViewStep
    BY <2>2, <2>6 DEF ViewStep, Open, MarkAsRead, Close, HandleScroll, Deliver, Miss
  <2>7. CASE PageStep
    BY <2>2, <2>7
       DEF PageStep, Prefetch, GetLastRead, ApplyFirst, ApplyOlder, ApplyPrefetch, ReadPage, FetchFails
  <2> QED
    BY <2>5, <2>6, <2>7 DEF MarkersNext
<1> QED
  BY <1>1, ReadInit, ReadStep, PTL DEF MarkersSpec, MarkerAdvances
================================================================================
