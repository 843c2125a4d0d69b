----------------------------- MODULE Listening -----------------------------
(***************************************************************************)
(* The listening overlay of the PWA: useAcousticDetection starts a model     *)
(* (AcousticDetectionService) and a microphone (AudioCapture) when           *)
(* AcousticAlert mounts, and stops them when it unmounts or the page hides.  *)
(* Starting awaits three answers of the browser and looks at nothing when it *)
(* resumes, so each mounting of the overlay is a session of its own here,    *)
(* which may go on after the overlay is closed.                              *)
(*                                                                         *)
(* A window of audio is its scores for the threats of YAMNET_THREAT_MAP.     *)
(***************************************************************************)
EXTENDS Naturals, Sequences

CONSTANTS
  Sounds,               \* sequences of scores, one per entry of YAMNET_THREAT_MAP
  DETECTION_THRESHOLD,
  MaxOpens,             \* bound: times the overlay is opened
  MaxWindows,           \* bound: windows captured
  MaxHides              \* bound: times the page is hidden

VARIABLES
  sessions,    \* one record per mounting of the overlay
  isRunning, currentAlert,   \* acousticSlice
  windows,     \* windows whose prediction or submission is under way
  hidden, hides, heard

listenVars == <<sessions, isRunning, currentAlert, windows, hidden, hides, heard>>

\* ph: what start() awaits; detector and capture: non-null; stream, context:
\* the fields of AudioCapture.
Mounted == [mounted |-> TRUE, ph |-> "init", detector |-> TRUE, capture |-> FALSE,
            stream |-> FALSE, context |-> FALSE]

ListenInit ==
  /\ sessions = <<>>
  /\ isRunning = FALSE /\ currentAlert = 0
  /\ windows = {}
  /\ hidden = FALSE /\ hides = 0 /\ heard = 0

Sessions == DOMAIN sessions
Open == {s \in Sessions : sessions[s].mounted}

-----------------------------------------------------------------------------
(* AudioCapture and AcousticDetectionService *)

\* Releases what start() has stored so far.
stop(c) == IF c.capture THEN [c EXCEPT !.stream = FALSE, !.context = FALSE] ELSE c

\* The first entry with the highest score at or above the threshold, or 0.
getThreatFromScores(scores) ==
  LET loud == {i \in DOMAIN scores : scores[i] >= DETECTION_THRESHOLD}
      best == {i \in loud : \A j \in loud : scores[j] <= scores[i] /\ (scores[j] = scores[i] => i <= j)}
  IN IF loud = {} THEN 0 ELSE CHOOSE i \in best : TRUE

\* The model is loaded (or not); the microphone is asked for.
init(s) ==
  /\ sessions[s].ph = "init"
  /\ \/ sessions' = [sessions EXCEPT ![s].ph = "media", ![s].capture = TRUE]
     \/ sessions' = [sessions EXCEPT ![s].ph = "failed"]
  /\ UNCHANGED <<isRunning, currentAlert, windows, hidden, hides, heard>>

\* getUserMedia is granted or refused; the worklet is asked for.
getUserMedia(s) ==
  /\ sessions[s].ph = "media"
  /\ \/ sessions' = [sessions EXCEPT ![s].ph = "worklet", ![s].stream = TRUE, ![s].context = TRUE]
     \/ sessions' = [sessions EXCEPT ![s] = [stop(@) EXCEPT !.ph = "failed"]]
  /\ UNCHANGED <<isRunning, currentAlert, windows, hidden, hides, heard>>

\* addModule resolves or not; without a context (stop() has run) the next line
\* throws.  detectionStarted follows at once.
addModule(s) ==
  /\ sessions[s].ph = "worklet"
  /\ \/ /\ sessions[s].context
        /\ sessions' = [sessions EXCEPT ![s].ph = "on"]
        /\ isRunning' = TRUE
     \/ /\ sessions' = [sessions EXCEPT ![s] = [stop(@) EXCEPT !.ph = "failed"]]
        /\ UNCHANGED isRunning
  /\ UNCHANGED <<currentAlert, windows, hidden, hides, heard>>

\* The worklet delivers a window; processWindow begins its prediction unless
\* the effect's clean-up has dropped the detector.
onWindow(s, scores) ==
  /\ sessions[s].ph = "on" /\ sessions[s].stream
  /\ heard < MaxWindows /\ heard' = heard + 1
  /\ windows' = IF sessions[s].detector
                THEN windows \cup {[id |-> heard, scores |-> scores, ph |-> "predict",
                                    open |-> sessions[s].mounted]}
                ELSE windows
  /\ UNCHANGED <<sessions, isRunning, currentAlert, hidden, hides>>

\* The scores are there: detectionReceived, and the position is asked for.
processWindow(w) ==
  /\ w.ph = "predict"
  /\ IF getThreatFromScores(w.scores) = 0
     THEN windows' = windows \ {w} /\ UNCHANGED currentAlert
     ELSE /\ currentAlert' = getThreatFromScores(w.scores)
          /\ windows' = (windows \ {w}) \cup {[w EXCEPT !.ph = "locate"]}
  /\ UNCHANGED <<sessions, isRunning, hidden, hides, heard>>

\* With a position the signal is posted; without one, nothing is sent.
submitAcousticSignal(w) ==
  /\ w.ph = "locate"
  /\ \/ windows' = (windows \ {w}) \cup {[w EXCEPT !.ph = "sent"]}
     \/ windows' = windows \ {w}
  /\ UNCHANGED <<sessions, isRunning, currentAlert, hidden, hides, heard>>

-----------------------------------------------------------------------------
(* The overlay *)

mount ==
  /\ Open = {} /\ Len(sessions) < MaxOpens
  /\ sessions' = Append(sessions, Mounted)
  /\ UNCHANGED <<isRunning, currentAlert, windows, hidden, hides, heard>>

KeepsDetector(s) ==  \* mutant
  /\ sessions' = [sessions EXCEPT ![s] = [stop(@) EXCEPT !.mounted = FALSE]]
  /\ isRunning' = FALSE

\* The effect's clean-up.
unmount(s) ==
  /\ sessions' = [sessions EXCEPT ![s] = [stop(@) EXCEPT !.mounted = FALSE, !.detector = FALSE]]
  /\ isRunning' = FALSE

\* Stop, or the host shows another overlay.
onClose ==
  /\ \E s \in Open : unmount(s)
  /\ UNCHANGED <<currentAlert, windows, hidden, hides, heard>>

\* The button, or the 30-second timer of a detection.
dismiss ==
  /\ currentAlert # 0
  /\ currentAlert' = 0
  /\ \E s \in Open : unmount(s)
  /\ UNCHANGED <<windows, hidden, hides, heard>>

\* Only the mounted overlay listens to visibilitychange.
stopMounted ==
  /\ sessions' = [s \in Sessions |-> IF s \in Open THEN stop(sessions[s]) ELSE sessions[s]]
  /\ isRunning' = IF Open = {} THEN isRunning ELSE FALSE

handleVisibilityChange ==
  /\ hidden' = ~hidden
  /\ IF hidden THEN UNCHANGED <<sessions, isRunning, hides>>
     ELSE hides < MaxHides /\ hides' = hides + 1 /\ stopMounted
  /\ UNCHANGED <<currentAlert, windows, heard>>

ListenNext ==
  \/ mount \/ onClose \/ dismiss \/ handleVisibilityChange
  \/ \E s \in Sessions : \/ init(s) \/ getUserMedia(s) \/ addModule(s)
                         \/ \E scores \in Sounds : onWindow(s, scores)
  \/ \E w \in windows : processWindow(w) \/ submitAcousticSignal(w)

ListenSpec == ListenInit /\ [][ListenNext]_listenVars

-----------------------------------------------------------------------------
(* Properties *)

\* A signal that is sent was heard while its overlay was open, although a
\* microphone that was granted late stays on after the overlay has closed.
SentWasHeardOpen == \A w \in windows : w.ph = "sent" => w.open
=============================================================================
