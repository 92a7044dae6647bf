---------------------------- MODULE Connections ----------------------------
(***************************************************************************)
(* A program and the connection it measures with.  On the JVM Default      *)
(* chooses URL, in JavaScript it chooses AJAX, JSONP or NodeJS from the    *)
(* environment (native connection/Default.scala of js and of jvm); what    *)
(* the chosen connection does is that of its own module.  All of them are  *)
(* to keep the promise of timeTrial() that TimeTrials states.              *)
(***************************************************************************)
EXTENDS TimeTrialFormats, FiniteSets

CONSTANTS
  Trial,       \* PendingTimeTrials of the program
  Stamp,       \* stamps that the server may make
  Format,      \* formats a caller may ask for
  NoFormat,    \* null: the caller asks for none
  BurstSize,   \* 3: inBurstsOf, of the scheduler that uses URL
  Workers,     \* parallelism of the JVM's global ExecutionContext
  CountSpan,   \* 2^8: identifiers told apart within one tick
  MinTick,     \* bounds of the ticks
  MaxTick,
  MaxDraws     \* bound on the page's own draws

\* Every request of the JVM ends at some time (UrlConnection).
ServerAnswers == TRUE

ASSUME DefaultFormats == {"BINARY", "JSONP"} \subseteq Format

VARIABLES
  connection,  \* the factory that Default has chosen
  format,      \* the format of its connection
  promise,     \* promise[t]: promisedTimeTrial
  misread,     \* history: trials that succeeded with another stamp than the
               \* server's
  running,     \* whether the process is alive
  future, record,           \* URL's request and record
  xhr,                      \* AJAX's
  tick, counter, drawn, moi, ticket, answer, script, callback, registry,  \* JSONP's
  request, stamped, coming  \* NodeJS's

urlVars == <<future, record>>
ajaxVars == <<xhr>>
jsonpVars == <<tick, counter, drawn, moi, ticket, answer, script, callback, registry>>
nodeVars == <<request, stamped, coming>>
vars == <<connection, format, promise, misread, running,
          urlVars, ajaxVars, jsonpVars, nodeVars>>

Url == INSTANCE UrlConnection WITH request <- future
Ajax == INSTANCE AjaxConnection
Jsonp == INSTANCE JsonpConnection
Node == INSTANCE NodeConnection
Trials == INSTANCE TimeTrials WITH outcome <- promise

ASSUME ConnectionsAssumption ==
  /\ Url!UrlAssumption
  /\ Ajax!AjaxAssumption
  /\ Jsonp!JsonpAssumption
  /\ Node!NodeAssumption

TypeOK ==
  /\ connection \in {"URL", "AJAX", "JSONP", "NodeJS"}
  /\ running \in BOOLEAN
  /\ Url!TypeOK
  /\ Ajax!TypeOK
  /\ Jsonp!TypeOK
  /\ Node!TypeOK

-----------------------------------------------------------------------------
(* Default.                                                                *)

\* Default.apply(uri): window throws where there is none.
Chosen(platform, window, sameHost) ==
  CASE platform = "JVM" -> "URL"
    [] platform = "JS" /\ ~window -> "NodeJS"
    [] platform = "JS" /\ window /\ sameHost -> "AJAX"
    [] platform = "JS" /\ window /\ ~sameHost -> "JSONP"

DefaultFormat(factory) == IF factory = "JSONP" THEN "JSONP" ELSE "BINARY"

\* Default.apply(uri, format, timeout); JSONP's factory drops the format.
FormatOf(factory, asked) ==
  IF factory = "JSONP" \/ asked = NoFormat THEN DefaultFormat(factory) ELSE asked

Init ==
  /\ \E platform \in {"JVM", "JS"}, window, sameHost \in BOOLEAN,
        asked \in Format \cup {NoFormat} :
       /\ connection = Chosen(platform, window, sameHost)
       /\ format = FormatOf(Chosen(platform, window, sameHost), asked)
  /\ Url!Init
  /\ Ajax!Init
  /\ Jsonp!Init
  /\ Node!Init

-----------------------------------------------------------------------------
(* The connection that was chosen goes on, the others do not exist.        *)

UrlOnly ==
  /\ connection = "URL"
  /\ UNCHANGED <<connection, running, ajaxVars, jsonpVars, nodeVars>>

AjaxOnly ==
  /\ connection = "AJAX"
  /\ UNCHANGED <<connection, running, urlVars, jsonpVars, nodeVars>>

JsonpOnly ==
  /\ connection = "JSONP"
  /\ UNCHANGED <<connection, format, misread, running, urlVars, ajaxVars, nodeVars>>

NodeOnly ==
  /\ connection = "NodeJS"
  /\ UNCHANGED <<connection, urlVars, ajaxVars, jsonpVars>>

Next ==
  \/ UrlOnly /\ Url!Next
  \/ AjaxOnly /\ Ajax!Next
  \/ JsonpOnly /\ Jsonp!Next
  \/ NodeOnly /\ Node!Next

Expire(t) ==
  \/ UrlOnly /\ Url!Expire(t)
  \/ AjaxOnly /\ Ajax!Expire(t)
  \/ JsonpOnly /\ Jsonp!Expire(t)
  \/ NodeOnly /\ Node!Expire(t)

Remove(t) == JsonpOnly /\ Jsonp!Remove(t)

(***************************************************************************)
(* The fairness of each connection: monitors' timers fire as long as the   *)
(* process lives, JSONP's due callbacks run, and the JVM's pool and        *)
(* scheduler go on.  A server need not answer a JavaScript program.        *)
(***************************************************************************)
Fairness ==
  /\ WF_vars(UrlOnly /\ Url!LaunchBurst)
  /\ \A t \in Trial :
       /\ WF_vars(Expire(t))
       /\ WF_vars(Remove(t))
       /\ SF_vars(UrlOnly /\ Url!Dispatch(t))
       /\ WF_vars(UrlOnly /\ Url!Return(t))

Spec == Init /\ [][Next]_vars /\ Fairness

-----------------------------------------------------------------------------
(* Properties.                                                             *)

(***************************************************************************)
(* Whatever connection was chosen, each timeTrial() has one outcome, keeps *)
(* it whatever comes later, and has it in the end though the server and    *)
(* the network do nothing, unless the process has ended: every connection  *)
(* implements TimeTrials (TimeServerConnection.scala:18).                  *)
(***************************************************************************)
TrialsImplemented == Trials!Spec

(***************************************************************************)
(* A trial succeeds with the stamp that the server wrote, however the      *)
(* answer is cut into pieces, whenever its end can be told from what came: *)
(* in JSON and XML, and on the connections that wait for the whole answer. *)
(***************************************************************************)
StampIntact ==
  \/ connection \in {"AJAX", "JSONP"}
  \/ connection = "URL" /\ format # "BINARY"
  \/ format \in {"JSON", "XML"}
  => misread = {}

\* Every trial of a burst is recorded, so that the next burst follows.
EveryTrialRecorded == connection = "URL" => Url!EveryTrialRecorded

\* A trial keeps its first outcome and is recorded once (URL.scala:35).
FirstOutcomeStands == Url!FirstOutcomeStands

\* The answer to a JSONP script completes no trial that is told apart from its
\* own, although the clock may be set back (JSONP.scala:40).
OwnAnswerOnly == Jsonp!OwnAnswerOnly

\* Between tasks JSONP's map holds pending trials only, and each that is told
\* apart from the others (JSONP.scala:45).
RegistryExact == connection = "JSONP" => Jsonp!RegistryExact

\* JSONP's map of pending trials does not leak (JSONP.scala:55).
RegistryDrains == Jsonp!RegistryDrains

=============================================================================
