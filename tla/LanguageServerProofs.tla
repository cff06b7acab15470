----------------------- MODULE LanguageServerProofs ------------------------
(***************************************************************************)
(* Proofs about LanguageServer for any files, texts, imports and number of *)
(* handlers in flight.                                                     *)
(***************************************************************************)
EXTENDS LanguageServer, SequenceLemmas, TLAPS

-----------------------------------------------------------------------------
(* An analysis.                                                            *)

\* The state that an analysis gives to a document: its text is the one analysed, and it
\* is in its bundle.
LEMMA StateSound ==
  ASSUME NEW d \in File, NEW t, NEW texts, DOMAIN texts = File, texts[d] = t
  PROVE  /\ SingleState(d, t).source = t /\ SingleState(d, t).bundle[d] = t
         /\ d \in FilesReached(texts) =>
              LET s == State(t, Restrict(texts, FilesReached(texts)))
              IN  s.source = t /\ s.bundle[d] = t
  BY DEF SingleState, State, Alone, Restrict

\* The text of u is new, the other documents of the project are as they were.
LEMMA OverlaySound ==
  ASSUME Documents \subseteq File, NEW u \in File, NEW t
  PROVE  /\ DOMAIN Overlay(u, t) = File
         /\ Overlay(u, t)[u] = t
         /\ \A d \in Documents \ {u} : Overlay(u, t)[d] = documents[d].source
  BY DEF Overlay

\* The states written are those of u and of open documents, with their texts.
LEMMA NewStatesSound ==
  ASSUME Documents \subseteq File, NEW u \in File, NEW t, NEW result
  PROVE  LET new == NewStates(u, t, result)
         IN  /\ u \in DOMAIN new /\ DOMAIN new \subseteq Documents \cup {u}
             /\ \A d \in DOMAIN new :
                  new[d].source = Overlay(u, t)[d] /\ new[d].bundle[d] = Overlay(u, t)[d]
<1>. DEFINE texts == Overlay(u, t)
<1>1. /\ DOMAIN texts = File /\ texts[u] = t
      /\ \A d \in Documents \ {u} : texts[d] = documents[d].source
  BY OverlaySound
<1>. HIDE DEF texts
<1>2. CASE result = NoError
  <2>. DEFINE new == ProjectStates(u, t, texts)
  <2>1. DOMAIN new = Siblings(u, texts) \cup {u} /\ Siblings(u, texts) \subseteq Documents
    BY DEF ProjectStates, Siblings
  <2>2. ASSUME NEW d \in DOMAIN new
        PROVE  new[d].source = texts[d] /\ new[d].bundle[d] = texts[d]
    <3>1. d \in File
      BY <2>1
    <3>2. CASE d \in FilesReached(texts)
      <4>1. new[d] = State(texts[d], Restrict(texts, FilesReached(texts)))
        BY <1>1, <2>1, <3>2 DEF ProjectStates
      <4>. HIDE DEF new
      <4>. QED  BY <1>1, <3>1, <3>2, <4>1, StateSound
    <3>3. CASE d \notin FilesReached(texts)
      <4>1. d = u
        BY <2>1, <3>3 DEF Siblings
      <4>2. new[d] = SingleState(u, t)
        BY <2>1, <3>3 DEF ProjectStates
      <4>. HIDE DEF new
      <4>. QED  BY <1>1, <4>1, <4>2, StateSound
    <3>. QED  BY <3>2, <3>3
  <2>3. NewStates(u, t, result) = new
    BY <1>2 DEF NewStates, texts
  <2>. HIDE DEF new
  <2>. QED  BY <2>1, <2>2, <2>3 DEF texts
<1>3. CASE result # NoError
  <2>1. NewStates(u, t, result) = [s \in {u} |-> SingleState(u, t)]
    BY <1>3 DEF NewStates
  <2>. QED  BY <1>1, <2>1, StateSound DEF texts
<1>. QED  BY <1>2, <1>3

\* What an analysis does to the documents and the handlers.
LEMMA AnalyzeSound ==
  ASSUME Documents \subseteq File,
         \A d \in Documents : documents[d].bundle[d] = documents[d].source,
         NEW u \in File, NEW t, NEW others, Analyze(u, t, others)
  PROVE  /\ Documents' = Documents \cup {u}
         /\ documents'[u].source = t
         /\ \A d \in Documents \ {u} : documents'[d].source = documents[d].source
         /\ \A d \in Documents' : documents'[d].bundle[d] = documents'[d].source
         /\ \E m : handlers' = Append(others, Publishing(m)) /\ u \in DOMAIN m
<1>1. PICK result \in Results(Overlay(u, t)),
           faulty \in SUBSET (FilesReached(Overlay(u, t)) \ (Documents \cup {u})) :
         /\ LET new == NewStates(u, t, result)
            IN  documents' = [d \in DOMAIN new \cup Documents |->
                                IF d \in DOMAIN new THEN new[d] ELSE documents[d]]
         /\ handlers' = Append(others, Publishing(Messages(u, t, result, faulty)))
  BY DEF Analyze
<1>2. PICK new : new = NewStates(u, t, result)
  OBVIOUS
<1>3. /\ u \in DOMAIN new /\ DOMAIN new \subseteq Documents \cup {u}
      /\ \A d \in DOMAIN new :
           new[d].source = Overlay(u, t)[d] /\ new[d].bundle[d] = Overlay(u, t)[d]
  BY <1>2, NewStatesSound
<1>4. documents' = [d \in DOMAIN new \cup Documents |->
                      IF d \in DOMAIN new THEN new[d] ELSE documents[d]]
  BY <1>1, <1>2
<1>5. Documents' = Documents \cup {u}
  BY <1>3, <1>4 DEF Documents
<1>6. u \in DOMAIN Messages(u, t, result, faulty)
  BY DEF Messages, ProjectMessages, ErrorMessages
<1>. QED  BY <1>1, <1>3, <1>4, <1>5, <1>6, OverlaySound DEF Documents

\* After an analysis without errors every document of the project has the bundle, and its
\* diagnostics are in the messages.
LEMMA QuietAnalysisSound ==
  ASSUME Documents \subseteq File, NEW u \in File, NEW t, NEW others, Analyze(u, t, others),
         quiet', NEW texts, texts = Overlay(u, t),
         NEW d \in (Documents \cup {u}) \cap FilesReached(texts)
  PROVE  /\ documents'[d].bundle = Restrict(texts, FilesReached(texts))
         /\ \E m : /\ handlers' = Append(<<>>, Publishing(m))
                   /\ d \in DOMAIN m /\ m[d] = ProjectDiags(d, texts)
<1>1. PICK faulty \in SUBSET (FilesReached(texts) \ (Documents \cup {u})) :
         /\ LET new == NewStates(u, t, NoError)
            IN  documents' = [e \in DOMAIN new \cup Documents |->
                                IF e \in DOMAIN new THEN new[e] ELSE documents[e]]
         /\ handlers' = Append(<<>>, Publishing(Messages(u, t, NoError, faulty)))
  BY DEF Analyze
<1>2. NewStates(u, t, NoError) = ProjectStates(u, t, texts)
  BY DEF NewStates
<1>3. d \in Siblings(u, texts) \cup {u}
  BY DEF Siblings
<1>4. /\ d \in DOMAIN ProjectStates(u, t, texts)
      /\ ProjectStates(u, t, texts)[d].bundle = Restrict(texts, FilesReached(texts))
  BY <1>3 DEF ProjectStates, State
<1>5. documents'[d].bundle = Restrict(texts, FilesReached(texts))
  <2>1. documents'[d] = ProjectStates(u, t, texts)[d]
    BY <1>1, <1>2, <1>4
  <2>. QED  BY <1>4, <2>1
<1>6. Messages(u, t, NoError, faulty) = ProjectMessages(u, t, texts, faulty)
  BY DEF Messages
<1>7. /\ d \in DOMAIN ProjectMessages(u, t, texts, faulty)
      /\ ProjectMessages(u, t, texts, faulty)[d] = ProjectDiags(d, texts)
  BY <1>3 DEF ProjectMessages
<1>. QED  BY <1>1, <1>5, <1>6, <1>7

-----------------------------------------------------------------------------
(* The inductive invariant.                                                *)

LEMMA InitIInv == Init => IInv
<1>. SUFFICES ASSUME Init PROVE IInv
  OBVIOUS
<1>1. Documents = {} /\ Range(handlers) = {} /\ Len(handlers) = 0 /\ DOMAIN handlers = {}
  BY DEF Init, Documents, Range
<1>2. handlers \in Seq(Range(handlers))
  BY EmptySeq DEF Init
<1>3. \A u \in File : u \notin Open
  BY DEF Init, Open
<1>. QED
  BY <1>1, <1>2, <1>3, EditorAssumption
  DEF Init, IInv, TypeOK, DocumentsFollowEditor, ReadersAreCurrent, Readers, QuietIsUnderWay

\* Of u, the editor has the text analysed, unless a handler of didClose had read it.
LEMMA AnalyzeKeeps ==
  ASSUME IInv, NEW u \in File, NEW t \in TextsOf[u], NEW others,
         others \in Seq(Range(handlers)), Len(others) < MaxHandlers,
         Analyze(u, t, others),
         DOMAIN editor' = File, DOMAIN shown' = File,
         \A d \in File : editor'[d] \in TextsOf[d] \cup {Closed},
         \A d \in File \ {u} : editor'[d] = editor[d] /\ (d \in raced <=> d \in raced'),
         u \notin raced' => editor'[u] = t /\ \A h \in Readers : h.then[1] = u => h.then[2] = t
  PROVE  IInv'
<1>. DEFINE H == Range(handlers)
<1>1. /\ Documents \subseteq File
      /\ \A d \in Documents : documents[d].bundle[d] = documents[d].source
      /\ \A d \in Documents : documents[d].source \in TextsOf[d]
  BY DEF IInv, TypeOK
<1>2. /\ Documents' = Documents \cup {u}
      /\ documents'[u].source = t
      /\ \A d \in Documents \ {u} : documents'[d].source = documents[d].source
      /\ \A d \in Documents' : documents'[d].bundle[d] = documents'[d].source
  BY <1>1, AnalyzeSound
<1>3. PICK m : handlers' = Append(others, Publishing(m)) /\ u \in DOMAIN m
  BY <1>1, AnalyzeSound
<1>4. /\ Range(handlers') = Range(others) \cup {Publishing(m)} /\ Range(others) \subseteq H
      /\ handlers' \in Seq(Range(handlers')) /\ Len(handlers') = Len(others) + 1
      /\ Len(others) \in Nat
  <2>1. others \in Seq(H \cup {Publishing(m)})
    BY SeqMonotonic
  <2>. HIDE DEF H
  <2>2. /\ Range(Append(others, Publishing(m))) = Range(others) \cup {Publishing(m)}
        /\ Append(others, Publishing(m)) \in Seq(H \cup {Publishing(m)})
        /\ Len(Append(others, Publishing(m))) = Len(others) + 1
    BY <2>1, AppendRange, AppendProperties
  <2>3. Range(others) \subseteq H
    BY OfItsRange DEF H
  <2>4. Append(others, Publishing(m)) \in Seq(Range(Append(others, Publishing(m))))
    BY <2>2, OfItsRange
  <2>. QED  BY <1>3, <2>1, <2>2, <2>3, <2>4, LenProperties
<1>5. /\ Publishing(m).step = "publish" /\ Publishing(m).messages = m /\ m # <<>>
  BY <1>3 DEF Publishing
<1>6a. \A h \in Range(handlers') : h.step = "publish" => h = Publishing(h.messages)
  BY <1>4, <1>5 DEF IInv
<1>6. Readers' \subseteq Readers
  BY <1>4, <1>5 DEF Readers
<1>7. Closed \notin TextsOf[u] /\ MaxHandlers \in Nat
  BY EditorAssumption
<1>8. DocumentsFollowEditor'
  <2>1. SUFFICES ASSUME NEW d \in File \ raced'
                 PROVE  /\ d \in Open' <=> d \in Documents'
                        /\ d \in Open' => documents'[d].source = editor'[d]
    BY DEF DocumentsFollowEditor
  <2>2. CASE d = u
    BY <1>2, <1>7, <2>2 DEF Open
  <2>3. CASE d # u
    <3>1. /\ d \in Open <=> d \in Documents
          /\ d \in Open => documents[d].source = editor[d]
      BY <2>3 DEF IInv, DocumentsFollowEditor
    <3>. QED  BY <1>2, <2>3, <3>1 DEF Open
  <2>. QED  BY <2>2, <2>3
<1>9. TypeOK'
  <2>1. \A i \in DOMAIN handlers' :
          handlers'[i].step = "publish" => handlers'[i].messages # <<>>
    <3>1. \A h \in H : h.step = "publish" => h.messages # <<>>
      BY DEF IInv, TypeOK, Range
    <3>2. \A h \in Range(handlers') : h.step = "publish" => h.messages # <<>>
      BY <1>4, <1>5, <3>1
    <3>. QED  BY <3>2 DEF Range
  <2>2. Len(handlers') <= MaxHandlers
    BY <1>4, <1>7
  <2>3. \A d \in Documents' : documents'[d].source \in TextsOf[d]
    BY <1>1, <1>2
  <2>. QED  BY <1>1, <1>2, <2>1, <2>2, <2>3 DEF TypeOK
<1>10. ReadersAreCurrent'
  <2>1. SUFFICES ASSUME NEW h \in Readers'
                 PROVE  /\ h.then[1] \in File /\ h.then[2] \in TextsOf[h.then[1]]
                        /\ h.then[1] \notin raced' =>
                             h.then[1] \in Documents' /\ h.then[2] = documents'[h.then[1]].source
    BY DEF ReadersAreCurrent
  <2>2. /\ h.then[1] \in File /\ h.then[2] \in TextsOf[h.then[1]]
        /\ h.then[1] \notin raced =>
             h.then[1] \in Documents /\ h.then[2] = documents[h.then[1]].source
    BY <1>6 DEF IInv, ReadersAreCurrent
  <2>3. CASE h.then[1] = u
    BY <1>2, <1>6, <2>2, <2>3
  <2>4. CASE h.then[1] # u
    BY <1>2, <2>2, <2>4
  <2>. QED  BY <2>2, <2>3, <2>4
<1>11. QuietIsUnderWay'
  <2>1. SUFFICES ASSUME quiet'
                 PROVE  /\ Len(handlers') <= 1 /\ \A h \in Range(handlers') : h.step = "publish"
                        /\ raced' = {} =>
                             \A d \in Open' \cap FilesReached(Current)' :
                               /\ WillShow(d)' = ProjectDiags(d, Current)'
                               /\ documents'[d].bundle
                                    = Restrict(Current', FilesReached(Current)')
    BY DEF QuietIsUnderWay
  <2>2. others = <<>> /\ Len(others) = 0 /\ Range(others) = {}
    <3>1. others = <<>>
      BY <2>1, Zenon DEF Analyze
    <3>. QED  BY <3>1 DEF Range
  <2>3. Len(handlers') <= 1 /\ \A h \in Range(handlers') : h.step = "publish"
    BY <1>4, <1>5, <2>2
  <2>4. ASSUME raced' = {} PROVE Current' = Overlay(u, t)
    <3>1. ASSUME NEW d \in File
          PROVE  (IF d \in Open' THEN editor'[d] ELSE DiskText[d]) = Overlay(u, t)[d]
      <4>1. CASE d = u
        BY <1>7, <2>4, <4>1 DEF Overlay, Open
      <4>2. CASE d # u
        <5>1. /\ d \in Open <=> d \in Documents
              /\ d \in Open => documents[d].source = editor[d]
          BY <2>4, <4>2 DEF IInv, DocumentsFollowEditor
        <5>. QED  BY <4>2, <5>1 DEF Overlay, Open
      <4>. QED  BY <4>1, <4>2
    <3>. QED  BY <3>1 DEF Current, Overlay
  <2>5. ASSUME raced' = {}, NEW d \in Open' \cap FilesReached(Current')
        PROVE  /\ WillShow(d)' = ProjectDiags(d, Current')
               /\ documents'[d].bundle = Restrict(Current', FilesReached(Current'))
    <3>1. PICK texts : texts = Overlay(u, t)
      OBVIOUS
    <3>2. Current' = texts
      BY <2>4, <2>5, <3>1
    <3>3. d \in Documents \cup {u}
      BY <1>2, <1>8, <2>5 DEF DocumentsFollowEditor, Open
    <3>4. PICK n : /\ documents'[d].bundle = Restrict(texts, FilesReached(texts))
                   /\ handlers' = Append(<<>>, Publishing(n))
                   /\ d \in DOMAIN n /\ n[d] = ProjectDiags(d, texts)
      BY <1>1, <2>1, <2>5, <3>1, <3>2, <3>3, QuietAnalysisSound
    <3>5. handlers'[1] = Publishing(n) /\ handlers' # <<>> /\ Publishing(n).messages = n
      BY <3>4, EmptySeq, AppendProperties DEF Publishing
    <3>. QED  BY <3>2, <3>4, <3>5 DEF WillShow
  <2>. QED  BY <2>3, <2>5
<1>. QED  BY <1>4, <1>6a, <1>8, <1>9, <1>10, <1>11 DEF IInv

\* Documents that a handler has not read keep, or leave, the exception when they are edited.
LEMMA EditKeeps ==
  ASSUME IInv, NEW u \in File, NEW t \in TextsOf[u], Len(handlers) < MaxHandlers,
         editor' = [editor EXCEPT ![u] = t], EditIsRaced(u), Analyze(u, t, handlers),
         UNCHANGED shown
  PROVE  IInv'
<1>1. PICK others : others = handlers
  OBVIOUS
<1>2. /\ others \in Seq(Range(handlers)) /\ Len(others) < MaxHandlers
      /\ Analyze(u, t, others)
  BY <1>1 DEF IInv
<1>3. /\ DOMAIN editor = File /\ DOMAIN shown = File
      /\ \A d \in File : editor[d] \in TextsOf[d] \cup {Closed}
  BY DEF IInv, TypeOK
<1>4. /\ DOMAIN editor' = File /\ DOMAIN shown' = File
      /\ \A d \in File : editor'[d] \in TextsOf[d] \cup {Closed}
      /\ \A d \in File \ {u} : editor'[d] = editor[d] /\ (d \in raced <=> d \in raced')
  BY <1>3 DEF EditIsRaced
<1>5. u \notin raced' => editor'[u] = t /\ \A h \in Readers : h.then[1] = u => h.then[2] = t
  BY <1>3 DEF EditIsRaced, Captured
<1>. QED  BY <1>2, <1>4, <1>5, AnalyzeKeeps

LEMMA DidCloseKeeps ==
  ASSUME IInv, NEW u \in File, DidClose(u)
  PROVE  IInv'
<1>. DEFINE H == Range(handlers)
<1>1. /\ DOMAIN editor = File /\ DOMAIN shown = File /\ Documents \subseteq File
      /\ \A d \in File : editor[d] \in TextsOf[d] \cup {Closed}
      /\ \A d \in Documents : /\ documents[d].source \in TextsOf[d]
                              /\ documents[d].bundle[d] = documents[d].source
      /\ handlers \in Seq(H)
  BY DEF IInv, TypeOK
<1>2. /\ Documents' = Documents \ {u}
      /\ \A d \in Documents' : documents'[d] = documents[d]
  BY DEF DidClose, Restrict, Documents
<1>3. PICK then : /\ handlers' = Append(handlers, Closing(u, then))
                  /\ \/ then = <<>>
                     \/ \E s \in Documents \ {u} : then = <<s, documents[s].source>>
  BY DEF DidClose, BeginClosing, Affected
<1>4. /\ Closing(u, then).step = "close" /\ Closing(u, then).then = then
  BY DEF Closing
<1>5. /\ Range(handlers') = H \cup {Closing(u, then)}
      /\ handlers' \in Seq(Range(handlers')) /\ Len(handlers') = Len(handlers) + 1
      /\ Len(handlers) \in Nat
  <2>1. handlers \in Seq(H \cup {Closing(u, then)})
    BY <1>1, SeqMonotonic
  <2>2. /\ Range(Append(handlers, Closing(u, then))) = H \cup {Closing(u, then)}
        /\ Append(handlers, Closing(u, then)) \in Seq(H \cup {Closing(u, then)})
        /\ Len(Append(handlers, Closing(u, then))) = Len(handlers) + 1
    <3>. HIDE DEF H
    <3>1. Range(Append(handlers, Closing(u, then))) = Range(handlers) \cup {Closing(u, then)}
      BY <2>1, AppendRange
    <3>. QED  BY <2>1, <3>1, AppendProperties DEF H
  <2>3. Append(handlers, Closing(u, then)) \in Seq(Range(Append(handlers, Closing(u, then))))
    <3>. HIDE DEF H
    <3>. QED  BY <2>2, OfItsRange
  <2>. QED  BY <1>1, <1>3, <2>2, <2>3, LenProperties
<1>6. \A d \in File \ {u} : editor'[d] = editor[d] /\ (d \in raced <=> d \in raced')
  BY <1>1 DEF DidClose, EditIsRaced
<1>7. editor'[u] = Closed /\ DOMAIN editor' = File
  BY <1>1 DEF DidClose
<1>8. DocumentsFollowEditor'
  <2>1. SUFFICES ASSUME NEW d \in File \ raced'
                 PROVE  /\ d \in Open' <=> d \in Documents'
                        /\ d \in Open' => documents'[d].source = editor'[d]
    BY DEF DocumentsFollowEditor
  <2>2. CASE d = u
    BY <1>2, <1>7, <2>2 DEF Open
  <2>3. CASE d # u
    <3>1. /\ d \in Open <=> d \in Documents
          /\ d \in Open => documents[d].source = editor[d]
      BY <1>6, <2>3 DEF IInv, DocumentsFollowEditor
    <3>. QED  BY <1>2, <1>6, <2>3, <3>1 DEF Open
  <2>. QED  BY <2>2, <2>3
<1>9. TypeOK'
  <2>1. \A i \in DOMAIN handlers' :
          handlers'[i].step = "publish" => handlers'[i].messages # <<>>
    <3>1. \A h \in H : h.step = "publish" => h.messages # <<>>
      BY DEF IInv, TypeOK, Range
    <3>2. \A h \in Range(handlers') : h.step = "publish" => h.messages # <<>>
      BY <1>4, <1>5, <3>1
    <3>. QED  BY <3>2 DEF Range
  <2>2. Len(handlers') <= MaxHandlers
    BY <1>5, EditorAssumption DEF DidClose
  <2>. QED  BY <1>1, <1>2, <1>6, <1>7, <2>1, <2>2 DEF TypeOK
<1>10. ReadersAreCurrent'
  <2>1. SUFFICES ASSUME NEW h \in Readers'
                 PROVE  /\ h.then[1] \in File /\ h.then[2] \in TextsOf[h.then[1]]
                        /\ h.then[1] \notin raced' =>
                             h.then[1] \in Documents' /\ h.then[2] = documents'[h.then[1]].source
    BY DEF ReadersAreCurrent
  <2>2. CASE h \in H
    <3>1. /\ h.then[1] \in File /\ h.then[2] \in TextsOf[h.then[1]]
          /\ h.then[1] \notin raced =>
               h.then[1] \in Documents /\ h.then[2] = documents[h.then[1]].source
          /\ h.then[1] \in Captured
      BY <2>1, <2>2 DEF IInv, ReadersAreCurrent, Readers, Captured
    <3>2. h.then[1] = u => u \in raced'
      BY <3>1 DEF DidClose, EditIsRaced
    <3>. QED  BY <1>2, <1>6, <3>1, <3>2
  <2>3. CASE h = Closing(u, then)
    <3>1. PICK s \in Documents \ {u} : then = <<s, documents[s].source>>
      BY <1>3, <1>4, <2>1, <2>3 DEF Readers
    <3>2. h.then[1] = s /\ h.then[2] = documents[s].source
      BY <1>4, <2>3, <3>1
    <3>. QED  BY <1>1, <1>2, <3>2
  <2>. QED  BY <1>5, <2>1, <2>2, <2>3 DEF Readers
<1>11. QuietIsUnderWay'
  BY DEF DidClose, QuietIsUnderWay
<1>12. \A h \in Range(handlers') : h.step = "publish" => h = Publishing(h.messages)
  BY <1>4, <1>5 DEF IInv
<1>. QED  BY <1>1, <1>5, <1>7, <1>8, <1>9, <1>10, <1>11, <1>12 DEF IInv, DidClose

LEMMA PublishKeeps ==
  ASSUME IInv, NEW i \in DOMAIN handlers, Publish(i)
  PROVE  IInv'
<1>. DEFINE H == Range(handlers)
            sent == handlers[i].messages
<1>1. /\ handlers \in Seq(H) /\ Len(handlers) \in Nat /\ DOMAIN handlers = 1 .. Len(handlers)
      /\ handlers[i] \in H /\ DOMAIN shown = File
  BY LenProperties DEF IInv, Range
<1>2. handlers[i] = Publishing(sent) /\ handlers[i].step = "publish"
  BY <1>1 DEF IInv, Publish
<1>3. PICK u \in DOMAIN sent :
        LET rest == Restrict(sent, DOMAIN sent \ {u})
        IN  /\ shown' = [shown EXCEPT ![u] = sent[u]]
            /\ handlers' = IF rest = <<>> THEN RemoveAt(handlers, i)
                           ELSE [handlers EXCEPT ![i].messages = rest]
  BY DEF Publish
<1>4. PICK rest : rest = Restrict(sent, DOMAIN sent \ {u})
  OBVIOUS
<1>5. DOMAIN rest = DOMAIN sent \ {u} /\ \A d \in DOMAIN rest : rest[d] = sent[d]
  BY <1>4 DEF Restrict
<1>6. \/ rest = <<>> /\ handlers' = RemoveAt(handlers, i)
      \/ rest # <<>> /\ handlers' = [handlers EXCEPT ![i] = Publishing(rest)]
  <2>1. [handlers EXCEPT ![i].messages = rest]
          = [handlers EXCEPT ![i] = [handlers[i] EXCEPT !.messages = rest]]
    OBVIOUS
  <2>2. [handlers[i] EXCEPT !.messages = rest] = Publishing(rest)
    <3>. HIDE DEF sent
    <3>. QED  BY <1>2 DEF Publishing
  <2>. QED  BY <1>3, <1>4, <2>1, <2>2
<1>7. Publishing(rest).step = "publish" /\ Publishing(rest).messages = rest
  BY DEF Publishing
<1>8. /\ handlers' \in Seq(Range(handlers')) /\ Len(handlers') <= Len(handlers)
      /\ \/ Range(handlers') \subseteq H
         \/ rest # <<>> /\ Range(handlers') \subseteq H \cup {Publishing(rest)}
  <2>1. PICK hs : hs = handlers
    OBVIOUS
  <2>2. PICK now : now = handlers'
    OBVIOUS
  <2>3. PICK S : S = H \cup {Publishing(rest)}
    OBVIOUS
  <2>4. hs \in Seq(S) /\ i \in DOMAIN hs /\ Range(hs) = H
    BY <1>1, <2>1, <2>3, SeqMonotonic
  <2>5. CASE rest = <<>>
    <3>1. now = RemoveAt(hs, i)
      BY <1>6, <2>1, <2>2, <2>5
    <3>. HIDE DEF H
    <3>2. now \in Seq(S) /\ Len(now) = Len(hs) - 1 /\ Range(now) \subseteq Range(hs)
      BY <2>4, <3>1, RemoveAtSound
    <3>3. now \in Seq(Range(now))
      BY <3>2, OfItsRange
    <3>. QED  BY <1>1, <2>1, <2>2, <2>4, <3>2, <3>3
  <2>6. CASE rest # <<>>
    <3>1. now = [hs EXCEPT ![i] = Publishing(rest)] /\ Publishing(rest) \in S
      BY <1>6, <2>1, <2>2, <2>3, <2>6
    <3>. HIDE DEF H
    <3>2. /\ now \in Seq(S) /\ Len(now) = Len(hs)
          /\ Range(now) \subseteq Range(hs) \cup {Publishing(rest)}
      <4>1. PICK x \in S : x = Publishing(rest)
        BY <3>1
      <4>2. /\ [hs EXCEPT ![i] = x] \in Seq(S) /\ Len([hs EXCEPT ![i] = x]) = Len(hs)
            /\ Range([hs EXCEPT ![i] = x]) \subseteq Range(hs) \cup {x}
        BY <2>4, ReplaceSound
      <4>. QED  BY <3>1, <4>1, <4>2
    <3>3. now \in Seq(Range(now))
      BY <3>2, OfItsRange
    <3>. QED  BY <1>1, <2>1, <2>2, <2>4, <2>6, <3>2, <3>3
  <2>. QED  BY <2>5, <2>6
<1>9. \A h \in Range(handlers') :
        \/ h \in H
        \/ h = Publishing(rest) /\ rest # <<>>
  BY <1>8
<1>10. Readers' \subseteq Readers
  BY <1>7, <1>9 DEF Readers
<1>11. TypeOK'
  <2>1. \A h \in H : h.step = "publish" => h.messages # <<>>
    BY DEF IInv, TypeOK, Range
  <2>2. \A h \in Range(handlers') : h.step = "publish" => h.messages # <<>>
    BY <1>7, <1>9, <2>1
  <2>3. \A j \in DOMAIN handlers' :
          handlers'[j].step = "publish" => handlers'[j].messages # <<>>
    BY <2>2 DEF Range
  <2>4. Len(handlers') <= MaxHandlers
    <3>1. Len(handlers) <= MaxHandlers
      BY DEF IInv, TypeOK
    <3>2. Len(handlers') \in Nat
      BY <1>8, LenProperties
    <3>. QED  BY <1>1, <1>8, <3>1, <3>2, EditorAssumption
  <2>. QED  BY <2>3, <2>4 DEF IInv, TypeOK, Publish, Documents
<1>12. DocumentsFollowEditor'
  BY DEF IInv, DocumentsFollowEditor, Publish, Open, Documents
<1>13. ReadersAreCurrent'
  BY <1>10 DEF IInv, ReadersAreCurrent, Publish, Documents
<1>14. QuietIsUnderWay'
  <2>1. SUFFICES ASSUME quiet
                 PROVE  /\ Len(handlers') <= 1 /\ \A h \in Range(handlers') : h.step = "publish"
                        /\ raced = {} =>
                             \A d \in Open \cap FilesReached(Current) :
                               /\ WillShow(d)' = ProjectDiags(d, Current)
                               /\ documents[d].bundle
                                    = Restrict(Current, FilesReached(Current))
    BY DEF QuietIsUnderWay, Publish, Open, Current
  <2>2. /\ Len(handlers) <= 1 /\ \A h \in H : h.step = "publish"
        /\ raced = {} =>
             \A d \in Open \cap FilesReached(Current) :
               /\ WillShow(d) = ProjectDiags(d, Current)
               /\ documents[d].bundle = Restrict(Current, FilesReached(Current))
    BY <2>1 DEF IInv, QuietIsUnderWay
  <2>3. Len(handlers) = 1 /\ i = 1 /\ handlers # <<>>
    BY <1>1, <2>2
  <2>4. Len(handlers') <= 1 /\ \A h \in Range(handlers') : h.step = "publish"
    BY <1>7, <1>8, <1>9, <2>2, <2>3
  <2>5. ASSUME NEW d \in File PROVE WillShow(d)' = WillShow(d)
    <3>1. shown'[d] = IF d = u THEN sent[d] ELSE shown[d]
      BY <1>1, <1>3
    <3>2. WillShow(d) = IF d \in DOMAIN sent THEN sent[d] ELSE shown[d]
      BY <2>3 DEF WillShow
    <3>3. CASE rest = <<>>
      <4>1. Len(handlers') = 0 /\ handlers' = <<>>
        <5>1. PICK hs : hs = handlers
          OBVIOUS
        <5>2. hs \in Seq(H) /\ i \in DOMAIN hs /\ Len(hs) = 1
          BY <1>1, <2>3, <5>1
        <5>3. RemoveAt(hs, i) \in Seq(H) /\ Len(RemoveAt(hs, i)) = 0
          <6>. HIDE DEF H
          <6>. QED  BY <5>2, RemoveAtSound
        <5>4. RemoveAt(hs, i) = <<>>
          BY <5>3, EmptySeq
        <5>. QED  BY <1>6, <3>3, <5>1, <5>3, <5>4
      <4>2. WillShow(d)' = shown'[d]
        BY <4>1 DEF WillShow
      <4>3. DOMAIN rest = {}
        BY <3>3
      <4>. QED  BY <1>5, <3>1, <3>2, <4>2, <4>3
    <3>4. CASE rest # <<>>
      <4>1. handlers'[1] = Publishing(rest) /\ handlers' # <<>>
        BY <1>1, <1>6, <2>3, <3>4
      <4>2. WillShow(d)' = IF d \in DOMAIN rest THEN rest[d] ELSE shown'[d]
        BY <1>7, <4>1 DEF WillShow
      <4>. QED  BY <1>5, <3>1, <3>2, <4>2
    <3>. QED  BY <3>3, <3>4
  <2>. QED  BY <2>2, <2>4, <2>5 DEF Open
<1>15. \A h \in Range(handlers') : h.step = "publish" => h = Publishing(h.messages)
  BY <1>7, <1>9 DEF IInv
<1>. QED  BY <1>1, <1>3, <1>8, <1>11, <1>12, <1>13, <1>14, <1>15 DEF IInv, Publish

LEMMA CloseGoesOnKeeps ==
  ASSUME IInv, NEW i \in DOMAIN handlers, CloseGoesOn(i)
  PROVE  IInv'
<1>. DEFINE H == Range(handlers)
            h == handlers[i]
<1>1. /\ handlers \in Seq(H) /\ Len(handlers) \in Nat /\ h \in H
      /\ DOMAIN shown = File /\ DOMAIN shown' = File /\ DOMAIN editor = File
      /\ Len(handlers) <= MaxHandlers
  BY LenProperties DEF IInv, TypeOK, Range, CloseGoesOn
<1>2. PICK others : others = RemoveAt(handlers, i)
  OBVIOUS
<1>3. /\ others \in Seq(H) /\ others \in Seq(Range(others)) /\ Len(others) = Len(handlers) - 1
      /\ Range(others) \subseteq H
  <2>1. PICK hs : hs = handlers
    OBVIOUS
  <2>2. hs \in Seq(H) /\ i \in DOMAIN hs /\ H = Range(hs)
    BY <1>1, <2>1
  <2>. HIDE DEF H
  <2>3. /\ RemoveAt(hs, i) \in Seq(H) /\ Len(RemoveAt(hs, i)) = Len(hs) - 1
        /\ Range(RemoveAt(hs, i)) \subseteq Range(hs)
    BY <2>2, RemoveAtSound
  <2>4. others \in Seq(Range(others))
    BY <1>2, <2>1, <2>3, OfItsRange
  <2>. QED  BY <1>2, <2>1, <2>2, <2>3, <2>4
<1>4. CASE h.then # <<>>
  <2>1. h \in Readers
    BY <1>1, <1>4 DEF CloseGoesOn, Readers
  <2>2. PICK u, t : u = h.then[1] /\ t = h.then[2]
    OBVIOUS
  <2>3. /\ u \in File /\ t \in TextsOf[u]
        /\ u \notin raced => u \in Documents /\ t = documents[u].source
    BY <2>1, <2>2 DEF IInv, ReadersAreCurrent
  <2>4. Analyze(u, t, others) /\ editor' = editor /\ raced' = raced
    BY <1>2, <1>4, <2>2 DEF CloseGoesOn
  <2>5. u \notin raced' => editor'[u] = t /\ \A g \in Readers : g.then[1] = u => g.then[2] = t
    BY <2>3, <2>4 DEF IInv, DocumentsFollowEditor, ReadersAreCurrent
  <2>6. Len(others) < MaxHandlers
    BY <1>1, <1>3, EditorAssumption
  <2>7. \A d \in File : editor'[d] \in TextsOf[d] \cup {Closed}
    BY <2>4 DEF IInv, TypeOK
  <2>. QED  BY <1>1, <1>3, <2>3, <2>4, <2>5, <2>6, <2>7, AnalyzeKeeps
<1>5. CASE h.then = <<>>
  <2>1. handlers' = others /\ UNCHANGED <<editor, documents, raced, quiet>>
    BY <1>2, <1>5 DEF CloseGoesOn
  <2>2. Readers' \subseteq Readers
    BY <1>3, <2>1 DEF Readers
  <2>3. TypeOK'
    <3>1. \A g \in H : g.step = "publish" => g.messages # <<>>
      BY DEF IInv, TypeOK, Range
    <3>2. \A j \in DOMAIN handlers' :
            handlers'[j].step = "publish" => handlers'[j].messages # <<>>
      BY <1>3, <2>1, <3>1 DEF Range
    <3>3. Len(handlers') <= MaxHandlers
      BY <1>1, <1>3, <2>1, EditorAssumption
    <3>. QED  BY <2>1, <3>2, <3>3 DEF IInv, TypeOK, Documents
  <2>4. DocumentsFollowEditor'
    BY <2>1 DEF IInv, DocumentsFollowEditor, Open, Documents
  <2>5. ReadersAreCurrent'
    BY <2>1, <2>2 DEF IInv, ReadersAreCurrent, Documents
  <2>6. ~quiet
    BY <1>1 DEF IInv, QuietIsUnderWay, CloseGoesOn
  <2>7. QuietIsUnderWay'
    BY <2>1, <2>6 DEF QuietIsUnderWay
  <2>8. \A g \in Range(handlers') : g.step = "publish" => g = Publishing(g.messages)
    BY <1>3, <2>1 DEF IInv
  <2>. QED  BY <1>1, <1>3, <2>1, <2>3, <2>4, <2>5, <2>7, <2>8 DEF IInv
<1>. QED  BY <1>4, <1>5

LEMMA NextKeeps == IInv /\ [Next]_vars => IInv'
<1>. SUFFICES ASSUME IInv, [Next]_vars PROVE IInv'
  OBVIOUS
<1>1. ASSUME NEW u \in File, DidClose(u) PROVE IInv'
  BY <1>1, DidCloseKeeps
<1>2. ASSUME NEW u \in File, NEW t \in TextsOf[u], DidOpen(u, t) PROVE IInv'
  BY <1>2, EditKeeps DEF DidOpen
<1>3. ASSUME NEW u \in File, NEW t \in TextsOf[u], DidChange(u, t) PROVE IInv'
  BY <1>3, EditKeeps DEF DidChange
<1>4. ASSUME NEW i \in DOMAIN handlers, Publish(i) PROVE IInv'
  BY <1>4, PublishKeeps
<1>5. ASSUME NEW i \in DOMAIN handlers, CloseGoesOn(i) PROVE IInv'
  BY <1>5, CloseGoesOnKeeps
<1>6. CASE UNCHANGED vars
  BY <1>6 DEF vars, IInv, TypeOK, DocumentsFollowEditor, ReadersAreCurrent, Readers,
              QuietIsUnderWay, WillShow, Open, Documents, Current
<1>. QED  BY <1>1, <1>2, <1>3, <1>4, <1>5, <1>6 DEF Next

LEMMA IInvHolds == Spec => []IInv
<1>1. Init => IInv
  BY InitIInv
<1>2. IInv /\ [Next]_vars => IInv'
  BY NextKeeps
<1>. QED  BY <1>1, <1>2, PTL DEF Spec

-----------------------------------------------------------------------------
(* The theorems.                                                           *)

\* The texts are those of their files, a document is in its bundle with the text it has,
\* and no more handlers are in flight than there may be: the type invariant.
THEOREM TypeCorrect == Spec => []TypeOK
<1>1. IInv => TypeOK
  BY DEF IInv
<1>. QED  BY <1>1, IInvHolds, PTL

\* Backend.documents has the open documents and their texts, however the handlers of
\* notifications interleave, except for a document that a handler of didClose had read
\* when it was edited.
THEOREM DocumentsAreTheEditors == Spec => []DocumentsFollowEditor
<1>1. IInv => DocumentsFollowEditor
  BY DEF IInv
<1>. QED  BY <1>1, IInvHolds, PTL

\* When an analysis without errors had no handler beside it, the diagnostics shown and the
\* bundles of all open documents of the project are those of the current texts.
THEOREM QuietAnalysesAreCurrent == Spec => []QuietAnalysisIsCurrent
<1>1. IInv => QuietAnalysisIsCurrent
  <2>1. SUFFICES ASSUME IInv, quiet, handlers = <<>>, raced = {},
                        NEW u \in Open \cap FilesReached(Current)
                 PROVE  /\ shown[u] = ProjectDiags(u, Current)
                        /\ documents[u].bundle = Restrict(Current, FilesReached(Current))
    BY DEF QuietAnalysisIsCurrent
  <2>. QED  BY <2>1 DEF IInv, QuietIsUnderWay, WillShow
<1>. QED  BY <1>1, IInvHolds, PTL
=============================================================================
