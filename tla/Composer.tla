------------------------------- MODULE Composer -------------------------------
(* The chat view's message composer and the uploads behind it: a draft,     *)
(* staged files and a reply, sent as one message by the main process, which *)
(* stores and uploads file after file before it posts.  A switch of the     *)
(* channel keeps the composer and clears part of it; leaving the chat view  *)
(* unmounts it, while a send goes on.  Texts, mentions and the drag overlay *)
(* are left out; a reply is known by the channel of the message.            *)
(*                                                                          *)
(* The file dialog is modal: while it is open the user can reach the window *)
(* only through a notification, which opens a channel.                      *)
EXTENDS Naturals, FiniteSets

CONSTANTS
  Channels,
  Files,
  None,     \* no channel
  MaxFiles, \* MAX_FILES, and MAX_FILES_PER_MESSAGE
  MaxSends  \* bound on the sends under way

ASSUME ComposerAssumption ==
  /\ None \notin Channels
  /\ MaxFiles \in Nat \ {0} /\ MaxSends \in Nat

VARIABLES
  shown,     \* the channel of the chat view, None when another panel is there
  draft,     \* content is not blank
  staged,    \* stagedFiles, each with the channel the user chose it for
  replyTo,   \* the channel of the message replied to
  sending,
  uploading,
  progress,  \* uploadProgress: the send it tells of, 0 for none
  dialog,    \* the channel the file dialog was opened in
  send,      \* the calls of handleSend under way
  local,     \* the files in the client's block store
  uploaded   \* the files the server has, with the channel they came for

composer == <<shown, draft, staged, replyTo, sending, uploading, progress, dialog>>
stored == <<local, uploaded>>
vars == <<composer, send, stored>>

Sends == 1..MaxSends
Picked == [file : Files, for : Channels]

NoSend == [at |-> "none", here |-> FALSE, channel |-> None, reply |-> None,
           files |-> {}, left |-> {}]

Init ==
  /\ shown = None /\ draft = FALSE /\ staged = {} /\ replyTo = None
  /\ sending = FALSE /\ uploading = FALSE /\ progress = 0
  /\ dialog = None
  /\ send = [s \in Sends |-> NoSend]
  /\ local = {} /\ uploaded = {}

Disabled == sending \/ uploading

------------------------------------------------------------------------------
(* The view.                                                                *)

(* Altered: the reply is kept.                                              *)
SwitchKeepsReply ==
  /\ staged' = {} /\ uploading' = FALSE /\ progress' = 0
  /\ UNCHANGED <<draft, sending, replyTo>>

(* The effects of a switch: the draft stays, and a send goes on.            *)
Switch ==
  /\ staged' = {} /\ uploading' = FALSE /\ progress' = 0
  /\ replyTo' = None
  /\ UNCHANGED <<draft, sending>>

Show(c) ==
  /\ c # shown
  /\ shown' = c
  /\ Switch
  /\ UNCHANGED <<dialog, send, stored>>

(* A channel of the list, or the chat panel again; the composer of a view   *)
(* that was not there is new.                                               *)
Select(c) == dialog = None /\ Show(c)

(* A notification: only a chat view that is there listens.                  *)
Navigate(c) == shown # None /\ Show(c)

(* Another panel: what is under way goes on without its composer.           *)
Leave ==
  /\ shown # None /\ dialog = None
  /\ shown' = None /\ draft' = FALSE /\ staged' = {} /\ replyTo' = None
  /\ sending' = FALSE /\ uploading' = FALSE /\ progress' = 0
  /\ send' = [s \in Sends |-> [send[s] EXCEPT !.here = FALSE]]
  /\ UNCHANGED <<dialog, stored>>

------------------------------------------------------------------------------
(* The user.                                                                *)

Free == shown # None /\ dialog = None

Type(text) ==
  /\ Free /\ ~Disabled
  /\ draft' = text
  /\ UNCHANGED <<shown, staged, replyTo, sending, uploading, progress, dialog, send, stored>>

Reply(c) ==
  /\ Free
  /\ replyTo' = c
  /\ UNCHANGED <<shown, draft, staged, sending, uploading, progress, dialog, send, stored>>

(* A message of the channel shown is replied to, or the reply is dropped.   *)
ReplyOrCancel == Reply(shown) \/ Reply(None)

(* The files that fit, those there are first.                               *)
Stage(f, c) ==
  staged' = IF Cardinality(staged) < MaxFiles THEN staged \cup {[file |-> f, for |-> c]}
            ELSE staged

(* On the view or on the composer, also while it is disabled.               *)
Drop(f) ==
  /\ Free
  /\ Stage(f, shown)
  /\ UNCHANGED <<shown, draft, replyTo, sending, uploading, progress, dialog, send, stored>>

Paste(f) == ~Disabled /\ Drop(f)

RemoveFile(f) ==
  /\ Free
  /\ ~(uploading /\ progress # 0) \* the previews are shown
  /\ staged' = staged \ {f}
  /\ UNCHANGED <<shown, draft, replyTo, sending, uploading, progress, dialog, send, stored>>

OpenDialog ==
  /\ Free /\ ~Disabled
  /\ dialog' = shown
  /\ UNCHANGED <<shown, draft, staged, replyTo, sending, uploading, progress, send, stored>>

(* The dialog is closed, with a file or without one.                        *)
DialogReturns ==
  /\ dialog # None
  /\ dialog' = None
  /\ \/ UNCHANGED staged
     \/ \E f \in Files : Stage(f, dialog)
  /\ UNCHANGED <<shown, draft, replyTo, sending, uploading, progress, send, stored>>

------------------------------------------------------------------------------
(* Sending.                                                                 *)

(* Enter.                                                                   *)
HandleSend(s) ==
  /\ send[s] = NoSend
  /\ Free /\ ~Disabled
  /\ draft \/ staged # {}
  /\ sending' = TRUE /\ uploading' = (staged # {})
  /\ send' = [send EXCEPT ![s] =
       [at |-> IF staged = {} THEN "posting" ELSE "uploading", here |-> TRUE,
        channel |-> shown, reply |-> replyTo, files |-> staged, left |-> staged]]
  /\ UNCHANGED <<shown, draft, staged, replyTo, progress, dialog, stored>>

(* The progress of any upload reaches the composer that waits for its own.  *)
ShowProgress(s) ==
  progress' = IF \E t \in Sends : send[t].here /\ send[t].files # {} THEN s ELSE progress

(* The send goes on after the file: the next one, or the message.           *)
UploadedOne(s, f) ==
  [send EXCEPT ![s].left = @ \ {f},
               ![s].at = IF send[s].left = {f} THEN "posting" ELSE "uploading"]

(* A file is stored, uploaded for the channel and announced.                *)
Upload(s, f) ==
  /\ send[s].at = "uploading" /\ f \in send[s].left
  /\ local' = local \cup {f.file}
  /\ uploaded' = uploaded \cup {<<f.file, send[s].channel>>}
  /\ send' = UploadedOne(s, f)
  /\ ShowProgress(s)
  /\ UNCHANGED <<shown, draft, staged, replyTo, sending, uploading, dialog>>

(* Altered: the answer to the upload is not looked at.                      *)
UploadRefusedIgnored(s, f) ==
  /\ send[s].at = "uploading" /\ f \in send[s].left
  /\ local' = local \cup {f.file}
  /\ send' = UploadedOne(s, f)
  /\ UNCHANGED <<composer, uploaded>>

(* The server refuses the block, or cannot be reached: the local copy and   *)
(* the files before it stay.                                                *)
UploadRefused(s, f) ==
  /\ send[s].at = "uploading" /\ f \in send[s].left
  /\ local' = local \cup {f.file}
  /\ send' = [send EXCEPT ![s].at = "failed"]
  /\ UNCHANGED <<composer, uploaded>>

(* The file cannot be read or stored or is too large, or, for a text, there *)
(* is no session.                                                           *)
SendRefused(s) ==
  /\ send[s].at \in {"uploading", "posting"}
  /\ send' = [send EXCEPT ![s].at = "failed"]
  /\ UNCHANGED <<composer, stored>>

(* The server has the message; its answer may be lost.                      *)
Post(s) ==
  /\ send[s].at = "posting"
  /\ \E answer \in {"sent", "failed"} : send' = [send EXCEPT ![s].at = answer]
  /\ UNCHANGED <<composer, stored>>

(* The message is there: everything in the composer is taken for sent, what *)
(* was put there in the meantime and for another channel too.               *)
Sent(s) ==
  /\ send[s].at = "sent"
  /\ send' = [send EXCEPT ![s] = NoSend]
  /\ IF send[s].here
     THEN /\ draft' = FALSE /\ replyTo' = None /\ sending' = FALSE
          /\ IF send[s].files = {} THEN UNCHANGED <<staged, uploading, progress>>
             ELSE staged' = {} /\ uploading' = FALSE /\ progress' = 0
     ELSE UNCHANGED <<draft, replyTo, sending, staged, uploading, progress>>
  /\ UNCHANGED <<shown, dialog, stored>>

(* It is not, or nobody knows: the composer is as it was, to be tried again.*)
SendFailed(s) ==
  /\ send[s].at = "failed"
  /\ send' = [send EXCEPT ![s] = NoSend]
  /\ sending' = (sending /\ ~send[s].here)
  /\ IF send[s].here /\ send[s].files # {}
     THEN uploading' = FALSE /\ progress' = 0
     ELSE UNCHANGED <<uploading, progress>>
  /\ UNCHANGED <<shown, draft, staged, replyTo, dialog, stored>>

------------------------------------------------------------------------------
SendStep(s) ==
  \/ \E f \in Picked : Upload(s, f) \/ UploadRefused(s, f)
  \/ SendRefused(s) \/ Post(s) \/ Sent(s) \/ SendFailed(s)

Next ==
  \/ \E c \in Channels : Select(c) \/ Navigate(c)
  \/ Leave
  \/ \E text \in BOOLEAN : Type(text)
  \/ ReplyOrCancel
  \/ \E f \in Files : Drop(f) \/ Paste(f)
  \/ \E f \in staged : RemoveFile(f)
  \/ OpenDialog \/ DialogReturns
  \/ \E s \in Sends : HandleSend(s) \/ SendStep(s)

Spec == Init /\ [][Next]_vars

------------------------------------------------------------------------------
TypeOK ==
  /\ shown \in Channels \cup {None}
  /\ draft \in BOOLEAN /\ sending \in BOOLEAN /\ uploading \in BOOLEAN
  /\ staged \subseteq Picked
  /\ replyTo \in Channels \cup {None} /\ dialog \in Channels \cup {None}
  /\ progress \in 0..MaxSends
  /\ \A s \in Sends : send[s] = NoSend \/
       send[s] \in [at : {"uploading", "posting", "sent", "failed"}, here : BOOLEAN,
                    channel : Channels, reply : Channels \cup {None},
                    files : SUBSET Picked, left : SUBSET Picked]
  /\ local \subseteq Files
  /\ uploaded \subseteq Files \X Channels

(* A message answers one of its own channel, however the view moved between *)
(* the choice of the reply and the end of the uploads.                      *)
RepliesStayHome == \A s \in Sends : send[s].reply \in {None, send[s].channel}

(* What a message shows was uploaded for its channel before it is posted,   *)
(* and the sender can show it without the server.                           *)
PostsAreBacked == \A s \in Sends :
  send[s].at \in {"posting", "sent"} => \A f \in send[s].files :
    <<f.file, send[s].channel>> \in uploaded /\ f.file \in local

(* The composer is disabled exactly while one send of its own is under way, *)
(* whatever was switched or left in the meantime, and there is no second.   *)
BusyIsASend ==
  /\ sending <=> \E s \in Sends : send[s].here
  /\ uploading => \E s \in Sends : send[s].here /\ send[s].files # {}
  /\ \A s, t \in Sends : send[s].here /\ send[t].here => s = t

(* A file goes to the channel it was chosen for ("Clear staged files when   *)
(* switching channels").                                                    *)
FilesStayHome == \A s \in Sends : \A f \in send[s].files : f.for = send[s].channel
==============================================================================
