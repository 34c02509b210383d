-------------------------------- MODULE Status --------------------------------
(***************************************************************************)
(* zc_status (src/zc_status.cpp) and the zc_banner it shows messages in    *)
(* (src/zc_banner.cpp): a message goes to the banner's history and, if the *)
(* verbosity and the topic let it, to the display; then to the log file,   *)
(* which the first message opens after renaming the older ones; then to    *)
(* the user, if it is severe or fatal.                                     *)
(*                                                                         *)
(* add_message and the progress calls run FLTK's loop (Fl::check), and so  *)
(* do the modal dialogues: another message, another progress or a click    *)
(* may come in between, so the main thread is a stack of calls.            *)
(***************************************************************************)
EXTENDS Integers, Sequences, FiniteSets, SequencesExt

CONSTANTS Scenes,       (* the circumstances to consider, see scene          *)
          NoTopic,      (* the topic of a message without a colon; in        *)
                        (* filter_topic_ and the chooser: all topics         *)
          Maxima,       (* the maxima progress is started with               *)
          Values,       (* the values of progress reported                   *)
          Width,        (* bits of a uint64_t                                *)
          Depth,        (* old logs kept (9)                                 *)
          MaxMessages,  (* bound: messages of one run of the program         *)
          MaxCalls      (* bound: calls in progress                          *)

Rank == [LOG |-> 1, DEBUG |-> 2, NOTE |-> 3, PROGRESS |-> 4, OK |-> 5,
         WARNING |-> 6, ERROR |-> 7, SEVERE |-> 8, FATAL |-> 9]
Threshold == [MINIMAL |-> 8, ERRORS |-> 7, WARNINGS |-> 6, INFO |-> 3, FULL |-> 0]

ASSUME StatusAssumption ==
  /\ Maxima \subseteq Nat /\ Values \subseteq Nat /\ Width \in Nat
  /\ Depth \in Nat \ {0} /\ MaxMessages \in Nat /\ MaxCalls \in Nat \ {0}
  /\ \A w \in Scenes : /\ {w.banner, w.logfile, w.faulty, w.nested, w.progress} \subseteq BOOLEAN
                       /\ w.levels \subseteq DOMAIN Rank /\ w.verbosities \subseteq DOMAIN Threshold
                       /\ NoTopic \notin w.topics /\ w.sessions \in Nat \ {0}

(* What is counted is far from the range's end: a step back, taken modulo   *)
(* 2^Width, is more than a hundredth of any maximum.                        *)
ASSUME ValuesAssumption ==
  /\ \A v \in Values : v < 2^Width
  /\ \A max \in Maxima : \A u, v \in Values : v < u => v + 2^Width - u > max \div 100

(* Rigid: HAS_BANNER and HAS_LOGFILE; whether the log may fail to open;     *)
(* whether what Fl::check runs calls the status object again; whether       *)
(* progress is reported; and the levels, topics, verbosities and runs of    *)
(* the program that occur.                                                  *)
VARIABLE scene

VARIABLES main,         (* the calls in progress, innermost first            *)
          reported,     (* messages of this run of the program               *)
          message_history, (* message_history_                               *)
          display,      (* the messages in display_'s buffer                 *)
          verbosity,    (* verbosity_, which the settings keep               *)
          filter_topic, (* filter_topic_                                     *)
          ch_filter,    (* the topic the chooser shows                       *)
          topics,       (* topics_                                           *)
          progress,     (* max_value_, delta_, prev_value_, prg_object_ and  *)
                        (* the value the dial shows                          *)
          value,        (* history: the progress reported last               *)
          files,        (* which run's log each file is, 0 if there is none: *)
                        (* file 0 is report_filename_, k the one with k added *)
          shift,        (* the next rename, or -1                            *)
          report_file,  (* report_file_ is open                              *)
          log,          (* the messages in it                                *)
          closing,      (* the application has been asked to close           *)
          session,      (* runs of the program                               *)
          logged,       (* history: the runs that began a log                *)
          cuts          (* history: kills in the middle of the renaming      *)

bannerVars == <<message_history, display, ch_filter, topics>>
choiceVars == <<verbosity, filter_topic>>
progressVars == <<progress, value>>
logVars == <<files, shift, report_file, log, logged>>
runVars == <<session, cuts>>
statusVars == <<scene, main, reported, bannerVars, choiceVars, progressVars, logVars, closing, runVars>>

NoProgress == [max |-> 0, delta |-> 0, prev |-> 0, object |-> NoTopic, dial |-> 0]

StatusInit ==
  /\ scene \in Scenes
  /\ main = <<>> /\ reported = 0
  /\ message_history = <<>> /\ display = <<>> /\ topics = {} /\ ch_filter = NoTopic
  /\ verbosity \in scene.verbosities /\ filter_topic = NoTopic
  /\ progress = NoProgress /\ value = 0
  /\ files = [k \in 0..Depth |-> 0] /\ shift = -1 /\ report_file = FALSE /\ log = <<>>
  /\ closing = FALSE /\ session = 1 /\ logged = {} /\ cuts = 0

-----------------------------------------------------------------------------
(* Calls in progress                                                       *)
Frame(at, msg) == [at |-> at, msg |-> msg]
Begun(at) == Frame(at, <<>>)
Top == Head(main)
In(at) == main # <<>> /\ Top.at = at
Returned == main' = Tail(main)
Goto(at) == main' = <<Frame(at, Top.msg)>> \o Tail(main)

(* Fl::check, and the dialogues' own loops, in which other windows get no   *)
(* events but timeouts and Fl::awake go on                                  *)
Checking == {"check", "refresh"}
Dialogues == {"alert", "ask", "fatal"}

Clickable == main = <<>> \/ \E at \in Checking : In(at)
CanRun ==
  \/ main = <<>>
  \/ scene.nested /\ Len(main) < MaxCalls /\ \E at \in Checking \union Dialogues : In(at)

-----------------------------------------------------------------------------
(* display_message and message_for_current_topic                           *)
Passes(m, v, f) == Rank[m.level] >= Threshold[v] /\ (f = NoTopic \/ m.topic = f)

(* mutant: the new message is not tested for its topic                      *)
CopyMsgAnyTopic(m) ==
  /\ topics' = topics \union ({m.topic} \ {NoTopic})
  /\ ch_filter' = IF topics' = topics THEN ch_filter ELSE NoTopic
  /\ message_history' = Append(message_history, m)
  /\ display' = IF Passes(m, verbosity, NoTopic) THEN Append(display, m) ELSE display

(* copy_msg_display, with add_topic: a new topic makes the chooser anew,    *)
(* which then shows all topics, whatever the filter is                      *)
CopyMsg(m) ==
  /\ topics' = topics \union ({m.topic} \ {NoTopic})
  /\ ch_filter' = IF topics' = topics THEN ch_filter ELSE NoTopic
  /\ message_history' = Append(message_history, m)
  /\ display' = IF Passes(m, verbosity, filter_topic) THEN Append(display, m) ELSE display

(* The beginning of misc_status, called with rest to be done after it:      *)
(* add_message up to its Fl::check                                          *)
MiscStatus(level, topic, rest) ==
  LET m == [id |-> reported + 1, level |-> level, topic |-> topic] IN
  /\ reported < MaxMessages /\ reported' = reported + 1
  /\ IF scene.banner THEN CopyMsg(m) ELSE UNCHANGED bannerVars
  /\ main' = <<Frame(IF scene.banner /\ ~closing THEN "check" ELSE "log", m)>> \o rest

Report(level, topic) ==
  /\ CanRun
  /\ MiscStatus(level, topic, main)
  /\ UNCHANGED <<scene, choiceVars, progressVars, logVars, closing, runVars>>

(* Fl::check has nothing more to do                                         *)
Checked ==
  /\ In("check") /\ Goto("log")
  /\ UNCHANGED <<scene, reported, bannerVars, choiceVars, progressVars, logVars, closing, runVars>>

(* The rest of misc_status: a severe message asks the user, a fatal one     *)
(* tells                                                                    *)
Judge ==
  CASE Top.msg.level = "SEVERE" -> Goto("ask")
    [] Top.msg.level = "FATAL"  -> Goto("fatal")
    [] OTHER -> Returned

WriteLog ==
  /\ In("log") /\ (report_file \/ ~scene.logfile)
  /\ log' = IF report_file THEN Append(log, Top.msg) ELSE log
  /\ Judge
  /\ UNCHANGED <<scene, reported, bannerVars, choiceVars, progressVars, files, shift, report_file, logged,
                 closing, runVars>>

RotateBegin ==
  /\ In("log") /\ scene.logfile /\ ~report_file
  /\ shift' = Depth - 1 /\ Goto("rotate")
  /\ UNCHANGED <<scene, reported, bannerVars, choiceVars, progressVars, files, report_file, log, logged,
                 closing, runVars>>

(* mutant: the renames go from the newest log to the oldest                 *)
RotateUpwards ==
  LET k == Depth - 1 - shift IN
  /\ In("rotate") /\ shift >= 0
  /\ files' = IF files[k] = 0 THEN files ELSE [files EXCEPT ![k + 1] = files[k], ![k] = 0]
  /\ shift' = shift - 1
  /\ UNCHANGED <<scene, main, reported, bannerVars, choiceVars, progressVars, report_file, log, logged,
                 closing, runVars>>

(* a rename replaces the file of the new name; of a file that is not there  *)
(* it does nothing                                                          *)
Rotate ==
  /\ In("rotate") /\ shift >= 0
  /\ files' = IF files[shift] = 0 THEN files
              ELSE [files EXCEPT ![shift + 1] = files[shift], ![shift] = 0]
  /\ shift' = shift - 1
  /\ UNCHANGED <<scene, main, reported, bannerVars, choiceVars, progressVars, report_file, log, logged,
                 closing, runVars>>

OpenLog ==
  /\ In("rotate") /\ shift = -1
  /\ files' = [files EXCEPT ![0] = session] /\ report_file' = TRUE
  /\ log' = <<Top.msg>> /\ logged' = logged \union {session}
  /\ Judge
  /\ UNCHANGED <<scene, reported, bannerVars, choiceVars, progressVars, shift, closing, runVars>>

(* the log does not open: an alert, and the next message tries again        *)
OpenLogFails ==
  /\ In("rotate") /\ shift = -1 /\ scene.faulty
  /\ Goto("alert")
  /\ UNCHANGED <<scene, reported, bannerVars, choiceVars, progressVars, logVars, closing, runVars>>

(* a message that came during the alert may have opened the log             *)
AlertSeen ==
  /\ In("alert")
  /\ log' = IF report_file THEN Append(log, Top.msg) ELSE log
  /\ Judge
  /\ UNCHANGED <<scene, reported, bannerVars, choiceVars, progressVars, files, shift, report_file, logged,
                 closing, runVars>>

(* The application's close callback: it calls zc_status::close, or ignores  *)
(* the wish                                                                 *)
AppCloses == closing' \in {closing, TRUE}

(* "Continue" or "Quit"                                                     *)
AskAnswered ==
  /\ In("ask") /\ AppCloses
  /\ Returned
  /\ UNCHANGED <<scene, reported, bannerVars, choiceVars, progressVars, logVars, runVars>>

FatalSeen ==
  /\ In("fatal") /\ AppCloses
  /\ Returned
  /\ UNCHANGED <<scene, reported, bannerVars, choiceVars, progressVars, logVars, runVars>>

-----------------------------------------------------------------------------
(* The banner's own widgets. Both choices call update_display, which copies *)
(* to the display, from the oldest on, each message of the history that     *)
(* passes                                                                   *)
Shown(history, v, f) ==
  LET shown[n \in 0..Len(history)] ==
        IF n = 0 THEN <<>>
        ELSE IF Passes(history[n], v, f) THEN Append(shown[n - 1], history[n]) ELSE shown[n - 1]
  IN  shown[Len(history)]

UpdateDisplay(v, f) ==
  /\ verbosity' = v /\ filter_topic' = f
  /\ display' = Shown(message_history, v, f)

ChooseVerbosity ==
  /\ scene.banner /\ Clickable
  /\ \E v \in scene.verbosities : UpdateDisplay(v, filter_topic)
  /\ UNCHANGED <<scene, main, reported, message_history, ch_filter, topics, progressVars, logVars, closing,
                 runVars>>

ChooseTopic ==
  /\ scene.banner /\ Clickable
  /\ \E f \in topics \union {NoTopic} : UpdateDisplay(verbosity, f) /\ ch_filter' = f
  /\ UNCHANGED <<scene, main, reported, message_history, topics, progressVars, logVars, closing, runVars>>

(* cb_close                                                                 *)
CloseBanner ==
  /\ scene.banner /\ Clickable /\ AppCloses
  /\ UNCHANGED <<scene, main, reported, bannerVars, choiceVars, progressVars, logVars, runVars>>

-----------------------------------------------------------------------------
(* start_progress: the message is shown before the dial is set              *)
StartProgress(max, object) ==
  /\ scene.banner /\ scene.progress /\ CanRun
  /\ progress' = [max |-> max, delta |-> max \div 100, prev |-> 0, object |-> object, dial |-> progress.dial]
  /\ value' = 0
  /\ MiscStatus("PROGRESS", object, <<Begun("started")>> \o main)
  /\ UNCHANGED <<scene, choiceVars, logVars, closing, runVars>>

Started ==
  /\ In("started")
  /\ progress' = [progress EXCEPT !.dial = 0]
  /\ Goto("refresh")
  /\ UNCHANGED <<scene, reported, bannerVars, choiceVars, value, logVars, closing, runVars>>

(* unsigned: a value below the previous one is a large step                 *)
Advance(v) == (v - progress.prev) % 2^Width

(* add_progress, with end_progress when the maximum is reached; without     *)
(* start_progress its variables have no value                               *)
AddProgress(v) ==
  /\ CanRun /\ progress.object # NoTopic
  /\ value' = v
  /\ IF v = progress.max
     THEN /\ MiscStatus("PROGRESS", progress.object, <<Begun("refresh")>> \o main)
          /\ progress' = [progress EXCEPT !.dial = v, !.prev = v]
     ELSE /\ UNCHANGED <<reported, bannerVars>>
          /\ IF Advance(v) > progress.delta
             THEN /\ progress' = [progress EXCEPT !.dial = v, !.prev = v]
                  /\ main' = <<Begun("refresh")>> \o main
             ELSE UNCHANGED <<progress, main>>
  /\ UNCHANGED <<scene, choiceVars, logVars, closing, runVars>>

(* cancel_progress, and end_progress when the application calls it itself   *)
CancelProgress ==
  /\ CanRun /\ progress.object # NoTopic
  /\ MiscStatus("PROGRESS", progress.object, <<Begun("refresh")>> \o main)
  /\ UNCHANGED <<scene, choiceVars, progressVars, logVars, closing, runVars>>

Refreshed ==
  /\ In("refresh") /\ Returned
  /\ UNCHANGED <<scene, reported, bannerVars, choiceVars, progressVars, logVars, closing, runVars>>

-----------------------------------------------------------------------------
(* The program ends, or is killed, and is started again                    *)
NextSession ==
  /\ session < scene.sessions /\ session' = session + 1
  /\ main' = <<>> /\ reported' = 0 /\ closing' = FALSE
  /\ message_history' = <<>> /\ display' = <<>> /\ topics' = {} /\ ch_filter' = NoTopic
  /\ filter_topic' = NoTopic /\ progress' = NoProgress /\ value' = 0
  /\ report_file' = FALSE /\ log' = <<>> /\ shift' = -1
  /\ UNCHANGED <<scene, verbosity, files, logged>>

End == main = <<>> /\ closing /\ NextSession /\ UNCHANGED cuts
Kill == main # <<>> /\ NextSession /\ cuts' = IF shift < Depth - 1 /\ In("rotate") THEN cuts + 1 ELSE cuts

Speak == \E level \in scene.levels, topic \in scene.topics \union {NoTopic} : Report(level, topic)
Progress ==
  \/ \E max \in Maxima, object \in scene.topics : StartProgress(max, object)
  \/ \E v \in Values : AddProgress(v)
  \/ Started \/ CancelProgress \/ Refreshed

StatusNext ==
  \/ Speak \/ Checked \/ WriteLog \/ RotateBegin \/ Rotate \/ OpenLog \/ OpenLogFails \/ AlertSeen
  \/ AskAnswered \/ FatalSeen
  \/ ChooseVerbosity \/ ChooseTopic \/ CloseBanner
  \/ Progress
  \/ End \/ Kill

StatusSpec == StatusInit /\ [][StatusNext]_statusVars

-----------------------------------------------------------------------------
(* Between calls, the log has every message of this run once, though not    *)
(* always in order: what is reported inside the Fl::check of another        *)
(* message is written before it. (If the log opens.) "Save previous files": *)
(* the logs of the last runs are there, the newest first; a kill during the *)
(* renaming costs the oldest one. (A log that fails to open costs one with  *)
(* every message.)                                                          *)
Newer(s) == {r \in logged : r > s}
LogsAreKept ==
  /\ scene.logfile /\ ~scene.faulty /\ main = <<>> =>
       Len(log) = reported /\ {log[k].id : k \in DOMAIN log} = 1..reported
  /\ \A j, k \in 0..Depth : j < k /\ files[j] # 0 /\ files[k] # 0 => files[j] > files[k]
  /\ ~scene.faulty => \A s \in logged :
       (Cardinality(Newer(s)) + cuts < Depth) => \E k \in 0..Depth : files[k] = s

(* The display is exactly what the verbosity and the topic let through of  *)
(* the history, in its order, whatever was reported or chosen inside        *)
(* Fl::check. Between calls the dial shows the last progress reported, or   *)
(* one that is not more than a hundredth of the maximum away, as long as    *)
(* progress is not reported from inside Fl::check: start_progress sets the  *)
(* dial to zero after it has shown its message.                             *)
BannerIsTrue ==
  /\ display = Shown(message_history, verbosity, filter_topic)
  /\ main = <<>> /\ ~scene.nested =>
       progress.dial = progress.prev /\ value - progress.dial \in 0..progress.delta
=============================================================================
