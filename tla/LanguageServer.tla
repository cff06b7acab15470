-------------------------- MODULE LanguageServer ---------------------------
(***************************************************************************)
(* The language server (phoenix-lsp/src/main.rs, project.rs, state.rs) and *)
(* an editor with the files of one project.                                *)
(*                                                                         *)
(* tower-lsp runs the handlers of several notifications at once, on one    *)
(* thread: they begin in the order of the notifications, and at an await   *)
(* another may go on.  A handler awaits only when it publishes.  So an     *)
(* analysis, from its snapshot of the documents to the writing of their    *)
(* states, is one step, and each message to the editor is another.  The    *)
(* notifications on their way to the server are left out: a notification   *)
(* is sent when its handler begins.                                        *)
(*                                                                         *)
(* Diagnostics are what they were computed from: the diagnostics of a file *)
(* in the project are the texts of the file and of what it imports.        *)
(***************************************************************************)
EXTENDS ModuleResolver, Sequences, SequencesExt

CONSTANTS
  Closed,        \* not a text: the editor has not opened the file
  TextsOf,       \* the texts of each file, a function on File
  DiskText,      \* the text of each file on disk
  MaxHandlers    \* handlers in flight (4 in tower-lsp)

ASSUME EditorAssumption ==
  /\ \A u \in File : Closed \notin TextsOf[u]
  /\ MaxHandlers \in Nat

VARIABLES
  editor,        \* the text of each open document, as the user sees it
  shown,         \* the diagnostics of each file, as the user sees them
  documents,     \* Backend.documents
  handlers,      \* the handlers in flight
  raced,         \* history: documents a handler of didClose captured and that changed then
  quiet          \* history: the last analysis succeeded, and no other handler ran

vars == <<editor, shown, documents, handlers, raced, quiet>>

Open == {u \in File : editor[u] # Closed}
Documents == DOMAIN documents

-----------------------------------------------------------------------------
(* An analysis (compute_analyze) of text t for u, given the documents.     *)

\* Mutant: the overlay has the previous text of the edited document.
M_Overlay(u, t) ==
  [f \in File |-> IF f \in Documents THEN documents[f].source
                  ELSE IF f = u THEN t ELSE DiskText[f]]

\* build_overlay_from_snapshot, and the disk for files that are not open.
Overlay(u, t) ==
  [f \in File |-> IF f = u THEN t
                  ELSE IF f \in Documents THEN documents[f].source ELSE DiskText[f]]

\* A DocumentState: the text, and the texts of the files its check result, source map
\* and URLs come from.
State(t, texts) == [source |-> t, bundle |-> texts]

\* The text of one file.
Alone(u, t) == [f \in {u} |-> t]

\* compute_single_file_state
SingleState(u, t) == State(t, Alone(u, t))

Diag(by, texts) == [by |-> by, seen |-> texts]
SingleDiags(u, t) == {Diag("single", Alone(u, t))}
ProjectDiags(u, texts) == {Diag("project", Restrict(texts, FilesFrom(texts, u)))}

\* Mutant: only the edited document gets the new states and diagnostics.
M_Siblings(u, texts) == {}

\* The other open documents of the project; they are refreshed along with u.
Siblings(u, texts) == (Documents \ {u}) \cap FilesReached(texts)

\* compute_project_outcome.  An edited document that nothing imports is analysed on
\* its own; closed files that have diagnostics are published, too.
ProjectStates(u, t, texts) ==
  LET bundle == Restrict(texts, FilesReached(texts))
      text(s) == IF s = u THEN t ELSE documents[s].source
  IN  [s \in Siblings(u, texts) \cup {u} |->
         IF s \in FilesReached(texts) THEN State(text(s), bundle) ELSE SingleState(u, t)]

ProjectMessages(u, t, texts, faulty) ==
  [s \in Siblings(u, texts) \cup faulty \cup {u} |->
     IF s \in FilesReached(texts) THEN ProjectDiags(s, texts) ELSE SingleDiags(u, t)]

\* compute_resolve_error_outcome.  The other documents keep their states; the edited
\* one is analysed on its own, which reports its own parse errors.
ErrorMessages(u, t, texts, result) ==
  LET reported == result.at \ (IF result.error = "malformed" THEN {u} ELSE {})
      found(f) == IF f \in reported THEN {Diag(result.error, Alone(f, texts[f]))} ELSE {}
  IN  [f \in reported \cup {u} |-> found(f) \cup (IF f = u THEN SingleDiags(u, t) ELSE {})]

\* The states an analysis writes (result, faulty: what the resolver and the checker said).
NewStates(u, t, result) ==
  IF result = NoError THEN ProjectStates(u, t, Overlay(u, t))
  ELSE [s \in {u} |-> SingleState(u, t)]

Messages(u, t, result, faulty) ==
  IF result = NoError THEN ProjectMessages(u, t, Overlay(u, t), faulty)
  ELSE ErrorMessages(u, t, Overlay(u, t), result)

-----------------------------------------------------------------------------

\* A handler publishes: messages is what it has left to send.  Or it has closed a
\* document, whose diagnostics it is about to clear, and will analyse another one
\* with the text it read: then = <<>> or <<that document, its text>>.
Publishing(messages) == [step |-> "publish", messages |-> messages]
Closing(u, then) == [step |-> "close", uri |-> u, then |-> then]

\* Handlers that have read a document's text, and these documents.
Readers == {h \in Range(handlers) : h.step = "close" /\ h.then # <<>>}
Captured == {h.then[1] : h \in Readers}

\* analyze, up to its first await: the documents are written, the messages are left.
\* others: the handlers in flight besides this one, which goes to their end.
Analyze(u, t, others) ==
  \E result \in Results(Overlay(u, t)),
     faulty \in SUBSET (FilesReached(Overlay(u, t)) \ (Documents \cup {u})) :
    /\ LET new == NewStates(u, t, result)
       IN  documents' = [d \in DOMAIN new \cup Documents |->
                           IF d \in DOMAIN new THEN new[d] ELSE documents[d]]
    /\ handlers' = Append(others, Publishing(Messages(u, t, result, faulty)))
    /\ quiet' = (result = NoError /\ others = <<>>)

Init ==
  /\ editor = [u \in File |-> Closed]
  /\ shown = [u \in File |-> {}]
  /\ documents = <<>>
  /\ handlers = <<>>
  /\ raced = {}
  /\ quiet = FALSE

\* A document that a closing handler has captured will be written with that text.
EditIsRaced(u) == raced' = IF u \in Captured THEN raced \cup {u} ELSE raced \ {u}

\* did_open
DidOpen(u, t) ==
  /\ editor[u] = Closed /\ Len(handlers) < MaxHandlers
  /\ editor' = [editor EXCEPT ![u] = t]
  /\ EditIsRaced(u)
  /\ Analyze(u, t, handlers)
  /\ UNCHANGED shown

\* did_change: the last of the changes, a full text.
DidChange(u, t) ==
  /\ editor[u] \notin {Closed, t} /\ Len(handlers) < MaxHandlers
  /\ editor' = [editor EXCEPT ![u] = t]
  /\ EditIsRaced(u)
  /\ Analyze(u, t, handlers)
  /\ UNCHANGED shown

\* The documents whose last bundle has the closed file, of which did_close takes one.
Affected(u) == {s \in Documents \ {u} : u \in DOMAIN documents[s].bundle}

\* One of them, if there is one, is chosen, and its text is read.
BeginClosing(u) ==
  \/ Affected(u) = {} /\ handlers' = Append(handlers, Closing(u, <<>>))
  \/ \E s \in Affected(u) :
       handlers' = Append(handlers, Closing(u, <<s, documents[s].source>>))

\* Mutant: the document is not removed.
M_DidClose(u) ==
  /\ editor[u] # Closed /\ Len(handlers) < MaxHandlers
  /\ editor' = [editor EXCEPT ![u] = Closed]
  /\ EditIsRaced(u)
  /\ BeginClosing(u)
  /\ quiet' = FALSE
  /\ UNCHANGED <<shown, documents>>

\* did_close, up to its first await.
DidClose(u) ==
  /\ editor[u] # Closed /\ Len(handlers) < MaxHandlers
  /\ editor' = [editor EXCEPT ![u] = Closed]
  /\ EditIsRaced(u)
  /\ documents' = Restrict(documents, Documents \ {u})
  /\ BeginClosing(u)
  /\ quiet' = FALSE
  /\ UNCHANGED shown

-----------------------------------------------------------------------------
(* What a handler does after an await; i is its place in handlers.         *)

\* One message of apply, in the arbitrary order of a HashMap.
Publish(i) ==
  /\ handlers[i].step = "publish"
  /\ \E u \in DOMAIN handlers[i].messages :
       LET rest == Restrict(handlers[i].messages, DOMAIN handlers[i].messages \ {u})
       IN  /\ shown' = [shown EXCEPT ![u] = handlers[i].messages[u]]
           /\ handlers' = IF rest = <<>> THEN RemoveAt(handlers, i)
                          ELSE [handlers EXCEPT ![i].messages = rest]
  /\ UNCHANGED <<editor, documents, raced, quiet>>

\* did_close clears the diagnostics, and analyses the sibling with the text it read.
CloseGoesOn(i) ==
  /\ handlers[i].step = "close"
  /\ shown' = [shown EXCEPT ![handlers[i].uri] = {}]
  /\ IF handlers[i].then = <<>>
     THEN /\ handlers' = RemoveAt(handlers, i)
          /\ UNCHANGED <<documents, quiet>>
     ELSE Analyze(handlers[i].then[1], handlers[i].then[2], RemoveAt(handlers, i))
  /\ UNCHANGED <<editor, raced>>

Next ==
  \/ \E u \in File : DidClose(u) \/ \E t \in TextsOf[u] : DidOpen(u, t) \/ DidChange(u, t)
  \/ \E i \in DOMAIN handlers : Publish(i) \/ CloseGoesOn(i)

Spec == Init /\ [][Next]_vars

-----------------------------------------------------------------------------
(* Properties.                                                             *)

\* Texts of their files; a document's bundle has the document, and its text is the source.
TypeOK ==
  /\ \A u \in File : editor[u] \in TextsOf[u] \cup {Closed}
  /\ Documents \subseteq File
  /\ \A u \in Documents :
       /\ documents[u].source \in TextsOf[u]
       /\ documents[u].bundle[u] = documents[u].source
  /\ Len(handlers) <= MaxHandlers
  /\ \A i \in DOMAIN handlers : handlers[i].step = "publish" => handlers[i].messages # <<>>

\* Requests about an open document are answered from its text, and nothing is kept of a
\* closed one, while any number of analyses and messages are under way.  The exception
\* is the document that did_close has picked and read before it awaits: an edit of it
\* that is handled in between is overwritten, and if it is closed in between it comes back.
DocumentsFollowEditor ==
  \A u \in File \ raced :
    /\ u \in Open <=> u \in Documents
    /\ u \in Open => documents[u].source = editor[u]

Current == [f \in File |-> IF f \in Open THEN editor[f] ELSE DiskText[f]]

\* When an analysis that found the project in order had no other handler beside it from
\* its start to its last message, then every open document of the project shows the
\* diagnostics of the current texts, and its bundle, from which rename and the other
\* requests take positions in all files, has the current text of every file.
QuietAnalysisIsCurrent ==
  quiet /\ handlers = <<>> /\ raced = {} =>
    \A u \in Open \cap FilesReached(Current) :
      /\ shown[u] = ProjectDiags(u, Current)
      /\ documents[u].bundle = Restrict(Current, FilesReached(Current))

-----------------------------------------------------------------------------
(* The inductive invariant: what the properties rest on.                   *)

\* A handler that has closed a document holds the text of an open one, the text that the
\* editor and documents have, too, unless they have changed since.
ReadersAreCurrent ==
  \A h \in Readers :
    /\ h.then[1] \in File /\ h.then[2] \in TextsOf[h.then[1]]
    /\ h.then[1] \notin raced =>
         h.then[1] \in Documents /\ h.then[2] = documents[h.then[1]].source

\* What the editor shows of u when the messages under way have come.
WillShow(u) ==
  IF handlers # <<>> /\ u \in DOMAIN handlers[1].messages
  THEN handlers[1].messages[u] ELSE shown[u]

\* After a quiet analysis its messages are all that is under way, and they, with what
\* is shown, are the diagnostics of the current texts.
QuietIsUnderWay ==
  quiet =>
    /\ Len(handlers) <= 1 /\ \A h \in Range(handlers) : h.step = "publish"
    /\ raced = {} =>
         \A u \in Open \cap FilesReached(Current) :
           /\ WillShow(u) = ProjectDiags(u, Current)
           /\ documents[u].bundle = Restrict(Current, FilesReached(Current))

IInv ==
  /\ TypeOK
  /\ DOMAIN editor = File /\ DOMAIN shown = File
  /\ handlers \in Seq(Range(handlers))
  /\ \A h \in Range(handlers) : h.step = "publish" => h = Publishing(h.messages)
  /\ DocumentsFollowEditor
  /\ ReadersAreCurrent
  /\ QuietIsUnderWay
=============================================================================
