-------------------------- MODULE CurlInput_proofs --------------------------
(***************************************************************************)
(* Input from URLs, for every request, pipe size and failure of pipe():    *)
(* the answer that the step takes for a URL is that of its own download,   *)
(* and no error page is converted.                                         *)
(*                                                                         *)
(* Both need that the step reads every URL but the last to its end: a      *)
(* broken archive that is not the last leaves a download behind that still *)
(* answers, and takes part in what the step does with the next URL.        *)
(***************************************************************************)
EXTENDS CurlInput, TLAPS

\* only the last URL of a request may be a broken archive
SoundButLast ==
    \A r \in Requests : \A i \in 1..Len(r) : i < Len(r) => r[i].sound

-----------------------------------------------------------------------------
(* The inductive invariant *)

\* where every variable stays
TypeOK ==
    /\ urls \in Requests
    /\ go \in BOOLEAN /\ curlErrors \in BOOLEAN /\ waiting \in BOOLEAN
    /\ answerer \in 0..Len(urls)
    /\ step \in {"next", "call", "wait", "read", "done"}
    /\ cur \in 0..Len(urls)
    /\ step \in {"call", "wait", "read"} => cur \in URLs
    /\ converted \subseteq URLs
    /\ got \in [URLs -> Nat]
    /\ download \in [URLs -> {"none", "perform", "write", "tell", "close",
                              "cleanup", "ended"}]
    /\ sent \in [URLs -> Nat]
    /\ closed \in [URLs -> BOOLEAN]

\* downloads that do not answer, or not any more
Quiet(u) == download[u] \in {"none", "close", "cleanup", "ended"}

\* a download is started in its turn, and has given its answers when the step
\* is past it
InTurn ==
    /\ \A u \in URLs : u > cur => download[u] = "none"
    /\ \A u \in URLs : u < cur => Quiet(u)
    /\ step = "next" /\ cur \in URLs /\ cur < Len(urls) => Quiet(cur)

\* what the shared answer and error flag are about
Answered ==
    /\ step = "wait" /\ ~ waiting =>
         answerer = cur /\ (go \/ (Quiet(cur) /\ download[cur] # "none"))
    /\ cur \in URLs /\ download[cur] \in {"tell", "close", "cleanup", "ended"} =>
         curlErrors = ~ Response(urls[cur])

\* only the data of a URL goes through its pipe, and it is closed at the end
Piped ==
    \A u \in URLs :
        /\ got[u] <= sent[u]
        /\ sent[u] > 0 \/ download[u] = "write" => urls[u].code = 200
        /\ closed[u] => download[u] \in {"cleanup", "ended"}

Inv == TypeOK /\ InTurn /\ Answered /\ Piped /\ NoErrorConverted

-----------------------------------------------------------------------------
(* Facts about the operators *)

LEMMA UrlsFinite ==
    ASSUME TypeOK
    PROVE  urls \in Seq(URL) /\ Len(urls) \in Nat
  BY CurlAssumption DEF TypeOK

LEMMA InitInv == Init => Inv
  <1> SUFFICES ASSUME Init PROVE Inv
    OBVIOUS
  <1>1. urls \in Seq(URL) /\ Len(urls) \in Nat
    BY CurlAssumption DEF Init
  <1>2. TypeOK
    <2>1. got \in [URLs -> Nat] /\ sent \in [URLs -> Nat]
      BY DEF Init
    <2>2. /\ download \in [URLs -> {"none", "perform", "write", "tell", "close",
                                    "cleanup", "ended"}]
          /\ closed \in [URLs -> BOOLEAN]
      BY DEF Init
    <2>3. 0 \in 0..Len(urls)
      BY <1>1
    <2>4. /\ go \in BOOLEAN /\ curlErrors \in BOOLEAN /\ waiting \in BOOLEAN
          /\ answerer \in 0..Len(urls) /\ cur \in 0..Len(urls)
      BY <2>3 DEF Init
    <2> QED BY <2>1, <2>2, <2>4 DEF Init, TypeOK
  <1>3. InTurn /\ Answered /\ Piped
    BY <1>1 DEF Init, InTurn, Answered, Piped, Quiet, URLs
  <1>4. NoErrorConverted
    BY DEF Init, NoErrorConverted
  <1> QED BY <1>2, <1>3, <1>4 DEF Inv

\* a download that still has to answer is that of the URL the step is at
LEMMA AnswersInTurn ==
    ASSUME TypeOK, InTurn, NEW u \in URLs, ~ Quiet(u)
    PROVE  u = cur
  <1>1. u \in Nat /\ cur \in Nat
    BY UrlsFinite DEF TypeOK, URLs
  <1>2. ~ u > cur
    BY DEF InTurn, Quiet
  <1> QED BY <1>1, <1>2 DEF InTurn

-----------------------------------------------------------------------------
(* The type invariant *)

\* what a notification changes
GoTypes == go \in BOOLEAN /\ waiting \in BOOLEAN /\ answerer \in 0..Len(urls)

LEMMA GoType ==
    ASSUME TypeOK, NEW u \in URLs, NEW flag \in BOOLEAN, goCurl(u, flag),
           UNCHANGED urls
    PROVE  GoTypes'
  <1>1. go' \in BOOLEAN /\ waiting' \in BOOLEAN
    BY DEF goCurl
  <1>2. answerer' \in 0..Len(urls')
    BY UrlsFinite DEF goCurl, URLs
  <1> QED BY <1>1, <1>2 DEF GoTypes

LEMMA DownloadType ==
    ASSUME TypeOK, NEW u \in URLs,
           \/ Callback(u) \/ Write(u) \/ Performs(u)
           \/ Tells(u) \/ Closes(u) \/ CleansUp(u)
    PROVE  TypeOK'
  <1> USE DEF sharedVars, stepVars, execVars, URLs
  <1>0. Len(urls) \in Nat
    BY UrlsFinite
  <1>1. CASE Callback(u)
    <2>1. GoTypes'
      BY <1>1, GoType DEF Callback
    <2>2. /\ download' \in [URLs -> {"none", "perform", "write", "tell",
                                     "close", "cleanup", "ended"}]
          /\ URLs' = URLs
      BY <1>1 DEF Callback, Goto, TypeOK
    <2>3. UNCHANGED <<urls, curlErrors, stepVars, sent, closed>>
      BY <1>1 DEF Callback
    <2>4. /\ converted' \subseteq URLs /\ got' \in [URLs -> Nat]
          /\ sent' \in [URLs -> Nat] /\ closed' \in [URLs -> BOOLEAN]
          /\ step' \in {"call", "wait", "read"} => cur' \in URLs
      BY <2>3 DEF TypeOK
    <2>5. /\ urls' \in Requests /\ curlErrors' \in BOOLEAN
          /\ step' \in {"next", "call", "wait", "read", "done"}
          /\ cur' \in 0..Len(urls')
      BY <2>3 DEF TypeOK
    <2> HIDE DEF URLs
    <2> QED BY <2>1, <2>2, <2>4, <2>5 DEF TypeOK, GoTypes
  <1>2. CASE Write(u)
    BY <1>0, <1>2 DEF Write, Goto, TypeOK
  <1>3. CASE Performs(u)
    <2>1. curlErrors' \in BOOLEAN
      BY <1>3 DEF Performs
    <2> QED BY <1>0, <1>3, <2>1 DEF Performs, Goto, TypeOK
  <1>4. CASE Tells(u)
    <2>1. Response(urls[u]) \in BOOLEAN
      BY DEF Response
    <2>2. GoTypes'
      BY <1>4, <2>1, GoType DEF Tells
    <2> QED BY <1>0, <1>4, <2>2 DEF Tells, Goto, TypeOK, GoTypes
  <1>5. CASE Closes(u)
    BY <1>0, <1>5 DEF Closes, Goto, TypeOK
  <1>6. CASE CleansUp(u)
    BY <1>0, <1>6 DEF CleansUp, Goto, TypeOK
  <1> QED BY <1>1, <1>2, <1>3, <1>4, <1>5, <1>6

LEMMA StepType ==
    ASSUME TypeOK, Step
    PROVE  TypeOK'
  <1> USE DEF sharedVars, downloadVars, execVars, URLs
  <1>0. Len(urls) \in Nat
    BY UrlsFinite
  <1>1. CASE Launch
    BY <1>0, <1>1 DEF Launch, TypeOK
  <1>2. CASE PipeFails
    BY <1>0, <1>2 DEF PipeFails, TypeOK
  <1>3. CASE WaitCurl
    BY <1>0, <1>3 DEF WaitCurl, TypeOK
  <1>4. CASE Answer
    BY <1>0, <1>4 DEF Answer, TypeOK
  <1>5. CASE Read
    BY <1>0, <1>5 DEF Read, TypeOK
  <1>6. CASE ReadEnds
    BY <1>0, <1>6 DEF ReadEnds, TypeOK
  <1>7. CASE Abandon
    BY <1>0, <1>7 DEF Abandon, TypeOK
  <1>8. CASE StepEnds
    BY <1>0, <1>8 DEF StepEnds, TypeOK
  <1> QED BY <1>1, <1>2, <1>3, <1>4, <1>5, <1>6, <1>7, <1>8 DEF Step

LEMMA NextType ==
    ASSUME TypeOK, [Next]_vars
    PROVE  TypeOK'
  <1>1. CASE Step
    BY <1>1, StepType
  <1>2. CASE Download
    BY <1>2, DownloadType DEF Download
  <1>3. CASE Execute
    BY <1>3 DEF Execute, CleanJoins, CleanEnds, Exit, sharedVars, stepVars,
                downloadVars, TypeOK, URLs
  <1>4. CASE UNCHANGED vars
    BY <1>4 DEF vars, sharedVars, stepVars, downloadVars, TypeOK, URLs
  <1> QED BY <1>1, <1>2, <1>3, <1>4 DEF Next, Terminating

\* Every variable keeps its type, whatever is asked for.
THEOREM TypeCorrect == Spec => []TypeOK
  <1>1. Init => TypeOK
    BY InitInv DEF Inv
  <1>2. TypeOK /\ [Next]_vars => TypeOK'
    BY NextType
  <1> QED BY <1>1, <1>2, PTL DEF Spec

-----------------------------------------------------------------------------
(* The steps of the downloads *)

LEMMA Goes ==
    ASSUME TypeOK, NEW u \in URLs, NEW pc, Goto(u, pc)
    PROVE  \A v \in URLs : download'[v] = IF v = u THEN pc ELSE download[v]
  BY DEF TypeOK, Goto

LEMMA DownloadInTurn ==
    ASSUME TypeOK, InTurn, NEW u \in URLs,
           \/ Callback(u) \/ Write(u) \/ Performs(u)
           \/ Tells(u) \/ Closes(u) \/ CleansUp(u)
    PROVE  InTurn'
  <1> DEFINE gone == {"close", "cleanup", "ended"}
  <1>1. /\ UNCHANGED <<urls, step, cur>>
        /\ \E pc \in {"write", "perform", "tell"} \cup gone :
              Goto(u, pc) /\ (Quiet(u) => pc \in gone) /\ download[u] # "none"
    BY DEF Callback, Write, Performs, Tells, Closes, CleansUp, sharedVars,
           stepVars, Quiet
  <1>2. PICK pc \in {"write", "perform", "tell"} \cup gone :
           Goto(u, pc) /\ (Quiet(u) => pc \in gone) /\ download[u] # "none"
    BY <1>1
  <1>3. \A v \in URLs : download'[v] = IF v = u THEN pc ELSE download[v]
    BY <1>2, Goes
  <1>4. \A v \in URLs : Quiet(v) => Quiet(v)'
    BY <1>2, <1>3 DEF Quiet
  <1>5. \A v \in URLs : download[v] = "none" => download'[v] = "none"
    BY <1>2, <1>3
  <1>6. URLs' = URLs
    BY <1>1 DEF URLs
  <1> QED BY <1>1, <1>4, <1>5, <1>6 DEF InTurn

LEMMA DownloadAnswered ==
    ASSUME TypeOK, InTurn, Answered, NEW u \in URLs,
           \/ Callback(u) \/ Write(u) \/ Performs(u)
           \/ Tells(u) \/ Closes(u) \/ CleansUp(u)
    PROVE  Answered'
  <1> USE DEF stepVars, sharedVars
  <1>0. URLs' = URLs /\ UNCHANGED <<urls, step, cur>>
    BY DEF Callback, Write, Performs, Tells, Closes, CleansUp, URLs
  <1>1. CASE Callback(u)
    <2>1. /\ download[u] = "perform" /\ go' = TRUE /\ answerer' = u
          /\ UNCHANGED curlErrors /\ Goto(u, "write")
      BY <1>1 DEF Callback, goCurl
    <2>2. u = cur
      BY <2>1, AnswersInTurn DEF Quiet
    <2>3. download'[cur] = "write"
      BY <2>1, <2>2, Goes
    <2> QED BY <1>0, <2>1, <2>2, <2>3 DEF Answered
  <1>2. CASE Write(u)
    <2>1. /\ download[u] = "write" /\ Goto(u, "perform")
          /\ UNCHANGED <<go, answerer, waiting, curlErrors>>
      BY <1>2 DEF Write
    <2>2. u = cur
      BY <2>1, AnswersInTurn DEF Quiet
    <2>3. download'[cur] = "perform"
      BY <2>1, <2>2, Goes
    <2>4. ~ Quiet(cur)
      BY <2>1, <2>2 DEF Quiet
    <2> QED BY <1>0, <2>1, <2>3, <2>4 DEF Answered
  <1>3. CASE Performs(u)
    <2>1. /\ download[u] = "perform" /\ Goto(u, "tell")
          /\ UNCHANGED <<go, answerer, waiting>>
          /\ curlErrors' = ~ Response(urls[u])
      BY <1>3 DEF Performs
    <2>2. u = cur /\ ~ Quiet(cur)
      BY <2>1, AnswersInTurn DEF Quiet
    <2>3. Response(urls'[cur']) = Response(urls[u])
      BY <1>0, <2>2
    <2> QED BY <1>0, <2>1, <2>2, <2>3 DEF Answered
  <1>4. CASE Tells(u)
    <2>1. /\ download[u] = "tell" /\ Goto(u, "close") /\ answerer' = u
          /\ UNCHANGED curlErrors
      BY <1>4 DEF Tells, goCurl
    <2>2. u = cur
      BY <2>1, AnswersInTurn DEF Quiet
    <2>3. download'[cur] = "close"
      BY <2>1, <2>2, Goes
    <2>4. curlErrors = ~ Response(urls[cur])
      BY <2>1, <2>2 DEF Answered
    <2> QED BY <1>0, <2>1, <2>2, <2>3, <2>4 DEF Answered, Quiet
  <1>5. CASE Closes(u) \/ CleansUp(u)
    <2>1. PICK pc \in {"cleanup", "ended"} :
             /\ Goto(u, pc) /\ download[u] \in {"close", "cleanup"}
             /\ UNCHANGED <<go, answerer, waiting, curlErrors>>
      BY <1>5 DEF Closes, CleansUp
    <2>2. \A v \in URLs : download'[v] = IF v = u THEN pc ELSE download[v]
      BY <2>1, Goes
    <2>3. cur \in URLs => /\ Quiet(cur) /\ download[cur] # "none" =>
                              Quiet(cur)' /\ download'[cur] # "none"
                          /\ download'[cur] \in {"tell", "close", "cleanup", "ended"}
                              => download[cur] \in {"tell", "close", "cleanup", "ended"}
      BY <1>0, <2>1, <2>2 DEF Quiet
    <2>4. step = "wait" => cur \in URLs
      BY DEF TypeOK
    <2> QED BY <1>0, <2>1, <2>3, <2>4 DEF Answered
  <1> QED BY <1>1, <1>2, <1>3, <1>4, <1>5

LEMMA DownloadPiped ==
    ASSUME TypeOK, Piped, NEW u \in URLs,
           \/ Callback(u) \/ Write(u) \/ Performs(u)
           \/ Tells(u) \/ Closes(u) \/ CleansUp(u)
    PROVE  Piped'
  <1> USE DEF stepVars
  <1>0. /\ URLs' = URLs /\ UNCHANGED <<urls, got>>
        /\ \A v \in URLs : got[v] \in Nat /\ sent[v] \in Nat
    BY DEF Callback, Write, Performs, Tells, Closes, CleansUp, URLs, TypeOK
  <1>1. CASE Callback(u)
    <2>1. /\ download[u] = "perform" /\ Goto(u, "write")
          /\ UNCHANGED <<sent, closed>> /\ urls[u].code = 200
      BY <1>1 DEF Callback
    <2> QED BY <1>0, <2>1, Goes DEF Piped
  <1>2. CASE Write(u)
    <2>1. /\ download[u] = "write" /\ Goto(u, "perform") /\ UNCHANGED closed
          /\ sent' = [sent EXCEPT ![u] = @ + 1]
      BY <1>2 DEF Write
    <2>2. \A v \in URLs : sent'[v] = IF v = u THEN sent[v] + 1 ELSE sent[v]
      BY <2>1 DEF TypeOK
    <2>3. \A v \in URLs : download'[v] = IF v = u THEN "perform" ELSE download[v]
      BY <2>1, Goes
    <2> QED BY <1>0, <2>1, <2>2, <2>3 DEF Piped
  <1>3. CASE Performs(u) \/ Tells(u)
    <2>1. PICK pc \in {"tell", "close"} :
             /\ Goto(u, pc) /\ download[u] \in {"perform", "tell"}
             /\ UNCHANGED <<sent, closed>>
      BY <1>3 DEF Performs, Tells
    <2>2. \A v \in URLs : download'[v] = IF v = u THEN pc ELSE download[v]
      BY <2>1, Goes
    <2> QED BY <1>0, <2>1, <2>2 DEF Piped
  <1>4. CASE Closes(u) \/ CleansUp(u)
    <2>1. PICK pc \in {"cleanup", "ended"} :
             /\ Goto(u, pc) /\ UNCHANGED sent
             /\ closed' \in {closed, [closed EXCEPT ![u] = TRUE]}
      BY <1>4 DEF Closes, CleansUp
    <2>2. \A v \in URLs : download'[v] = IF v = u THEN pc ELSE download[v]
      BY <2>1, Goes
    <2>3. \A v \in URLs : closed'[v] => closed[v] \/ v = u
      BY <2>1 DEF TypeOK
    <2> QED BY <1>0, <2>1, <2>2, <2>3 DEF Piped
  <1> QED BY <1>1, <1>2, <1>3, <1>4

-----------------------------------------------------------------------------
(* The steps of the step that reads the inputs *)

LEMMA StepInTurn ==
    ASSUME SoundButLast, TypeOK, InTurn, Answered, Piped, Step
    PROVE  InTurn'
  <1> USE DEF downloadVars
  <1>0. /\ cur \in Nat /\ Len(urls) \in Nat /\ UNCHANGED urls /\ URLs' = URLs
        /\ \A u \in URLs : u \in Nat
    BY UrlsFinite DEF TypeOK, URLs, Step, Launch, PipeFails, WaitCurl, Answer,
                      Read, ReadEnds, Abandon, StepEnds
  <1>1. CASE Launch \/ PipeFails
    <2>1. /\ step = "next" /\ cur < Len(urls) /\ cur' = cur + 1 /\ step' = "call"
          /\ \/ UNCHANGED download
             \/ download' = [download EXCEPT ![cur'] = "perform"]
      BY <1>1 DEF Launch, PipeFails
    <2>2. \A u \in URLs : u # cur' => download'[u] = download[u]
      BY <2>1 DEF TypeOK
    <2>3. \A u \in URLs : u < cur' => u < cur \/ u = cur
      BY <1>0, <2>1
    <2>4. ASSUME NEW u \in URLs, u < cur' PROVE Quiet(u)'
      <3>1. u # cur' /\ Quiet(u)
        BY <1>0, <2>1, <2>3, <2>4 DEF InTurn
      <3> QED BY <2>2, <3>1 DEF Quiet
    <2>5. ASSUME NEW u \in URLs, u > cur' PROVE download'[u] = "none"
      <3>1. u # cur' /\ u > cur
        BY <1>0, <2>1, <2>5
      <3> QED BY <2>2, <3>1 DEF InTurn
    <2> QED BY <1>0, <2>1, <2>4, <2>5 DEF InTurn
  <1>2. CASE Answer
    <2>1. /\ step = "wait" /\ ~ waiting /\ step' = IF go THEN "read" ELSE "next"
          /\ UNCHANGED <<cur, download>>
      BY <1>2 DEF Answer
    <2> QED BY <1>0, <2>1 DEF InTurn, Answered, Quiet
  <1>3. CASE ReadEnds
    <2>1. closed[cur] /\ UNCHANGED <<cur, download>> /\ cur \in URLs
      BY <1>3 DEF ReadEnds, TypeOK
    <2>2. Quiet(cur)
      BY <2>1 DEF Piped, Quiet
    <2> QED BY <1>0, <2>1, <2>2 DEF InTurn, Quiet
  <1>4. CASE Abandon
    <2>1. /\ step = "read" /\ ~ urls[cur].sound /\ UNCHANGED <<cur, download>>
          /\ cur \in 1..Len(urls) /\ urls \in Requests
      BY <1>4 DEF Abandon, TypeOK, URLs
    <2>2. ~ cur < Len(urls)
      BY <2>1 DEF SoundButLast
    <2> QED BY <1>0, <2>1, <2>2 DEF InTurn, Quiet
  <1>5. CASE WaitCurl \/ Read \/ StepEnds
    BY <1>0, <1>5 DEF WaitCurl, Read, StepEnds, InTurn, Quiet
  <1> QED BY <1>1, <1>2, <1>3, <1>4, <1>5 DEF Step

LEMMA StepAnswered ==
    ASSUME TypeOK, InTurn, Answered, Step
    PROVE  Answered'
  <1> USE DEF downloadVars, sharedVars
  <1>0. /\ cur \in Nat /\ Len(urls) \in Nat /\ UNCHANGED urls /\ URLs' = URLs
    BY UrlsFinite DEF TypeOK, URLs, Step, Launch, PipeFails, WaitCurl, Answer,
                      Read, ReadEnds, Abandon, StepEnds
  <1>1. CASE Launch \/ PipeFails
    <2>1. /\ cur < Len(urls) /\ cur' = cur + 1 /\ step' = "call"
          /\ \/ UNCHANGED download
             \/ download' = [download EXCEPT ![cur'] = "perform"]
      BY <1>1 DEF Launch, PipeFails
    <2>2. cur' \in URLs /\ cur' > cur
      BY <1>0, <2>1 DEF URLs
    <2>3. download'[cur'] \in {"none", "perform"}
      BY <2>1, <2>2 DEF InTurn, TypeOK
    <2> QED BY <2>1, <2>3 DEF Answered
  <1>2. CASE WaitCurl
    BY <1>0, <1>2 DEF WaitCurl, Answered
  <1>3. CASE Answer \/ Read \/ ReadEnds \/ Abandon \/ StepEnds
    <2>1. /\ UNCHANGED <<cur, download, curlErrors>>
          /\ step' # "wait" \/ UNCHANGED <<step, go, waiting, answerer>>
      BY <1>3 DEF Answer, Read, ReadEnds, Abandon, StepEnds
    <2> QED BY <1>0, <2>1 DEF Answered, Quiet
  <1> QED BY <1>1, <1>2, <1>3 DEF Step

LEMMA StepPiped ==
    ASSUME TypeOK, InTurn, Piped, Step
    PROVE  Piped'
  <1> USE DEF downloadVars
  <1>a. UNCHANGED urls /\ URLs' = URLs
    BY DEF URLs, Step, Launch, PipeFails, WaitCurl, Answer, Read, ReadEnds,
           Abandon, StepEnds
  <1>b. \A u \in URLs : got[u] \in Nat /\ sent[u] \in Nat
    BY DEF TypeOK
  <1>0. /\ cur \in Nat /\ Len(urls) \in Nat /\ UNCHANGED urls /\ URLs' = URLs
        /\ \A u \in URLs : got[u] \in Nat /\ sent[u] \in Nat
    BY <1>a, <1>b, UrlsFinite DEF TypeOK
  <1>1. CASE Launch
    <2>1. /\ cur < Len(urls) /\ cur' = cur + 1 /\ UNCHANGED <<got, sent, closed>>
          /\ download' = [download EXCEPT ![cur'] = "perform"]
      BY <1>1 DEF Launch
    <2>2. cur' \in URLs /\ download[cur'] = "none"
      BY <1>0, <2>1 DEF URLs, InTurn
    <2>3. \A u \in URLs :
             download'[u] = IF u = cur' THEN "perform" ELSE download[u]
      BY <2>1 DEF TypeOK
    <2>4. ~ closed[cur']
      BY <2>2 DEF Piped
    <2>5. ASSUME NEW u \in URLs
          PROVE  /\ got'[u] <= sent'[u]
                 /\ sent'[u] > 0 \/ download'[u] = "write" => urls'[u].code = 200
                 /\ closed'[u] => download'[u] \in {"cleanup", "ended"}
      <3>1. /\ got[u] <= sent[u]
            /\ sent[u] > 0 \/ download[u] = "write" => urls[u].code = 200
            /\ closed[u] => download[u] \in {"cleanup", "ended"}
        BY <2>5 DEF Piped
      <3>2. CASE u = cur'
        BY <1>0, <2>1, <2>3, <2>4, <3>1, <3>2
      <3>3. CASE u # cur'
        BY <1>0, <2>1, <2>3, <3>1, <3>3
      <3> QED BY <3>2, <3>3
    <2> QED BY <1>0, <2>5 DEF Piped
  <1>2. CASE Read
    <2>1. /\ InPipe(cur) > 0 /\ cur \in URLs
          /\ got' = [got EXCEPT ![cur] = @ + 1]
          /\ UNCHANGED <<download, sent, closed>>
      BY <1>2 DEF Read, TypeOK
    <2>2. \A u \in URLs : got'[u] = IF u = cur THEN got[u] + 1 ELSE got[u]
      BY <2>1 DEF TypeOK
    <2>3. got[cur] + 1 <= sent[cur]
      BY <1>0, <2>1 DEF InPipe
    <2> QED BY <1>0, <2>1, <2>2, <2>3 DEF Piped
  <1>3. CASE PipeFails \/ WaitCurl \/ Answer \/ ReadEnds \/ Abandon \/ StepEnds
    <2>1. UNCHANGED <<got, download, sent, closed>>
      BY <1>3 DEF PipeFails, WaitCurl, Answer, ReadEnds, Abandon, StepEnds
    <2> QED BY <1>0, <2>1 DEF Piped
  <1> QED BY <1>1, <1>2, <1>3 DEF Step

\* NoErrorConverted for one URL
Convertible(u) == \/ urls[u].code = 200 /\ got[u] > 0
                  \/ Response(urls[u])

LEMMA StepConverts ==
    ASSUME TypeOK, Answered, Piped, NoErrorConverted, Step
    PROVE  NoErrorConverted'
  <1> USE DEF downloadVars
  <1>0. /\ UNCHANGED urls /\ URLs' = URLs
        /\ \A u \in URLs : got[u] \in Nat /\ sent[u] \in Nat
        /\ converted \subseteq URLs
        /\ step = "read" => cur \in URLs
    BY DEF TypeOK, URLs, Step, Launch, PipeFails, WaitCurl, Answer, Read,
           ReadEnds, Abandon, StepEnds
  <1>1. \A u \in converted : Convertible(u)
    BY DEF NoErrorConverted, Convertible
  <1>2. \A u \in URLs : got[u] > 0 => Convertible(u)
    BY <1>0 DEF Piped, Convertible
  <1>3. CASE Read
    <2>1. /\ got' = [got EXCEPT ![cur] = @ + 1] /\ cur \in URLs
          /\ UNCHANGED converted
      BY <1>0, <1>3 DEF Read
    <2>2. \A u \in URLs : got[u] > 0 => got'[u] > 0
      BY <1>0, <2>1 DEF TypeOK
    <2>3. \A u \in converted : Convertible(u)'
      BY <1>0, <1>1, <2>1, <2>2 DEF Convertible
    <2> QED BY <2>1, <2>3 DEF NoErrorConverted, Convertible
  <1>4. CASE ReadEnds
    <2>1. /\ closed[cur] /\ cur \in URLs /\ UNCHANGED got
          /\ converted' = IF got[cur] = 0 /\ curlErrors THEN converted
                          ELSE converted \cup {cur}
      BY <1>0, <1>4 DEF ReadEnds
    <2>2. curlErrors = ~ Response(urls[cur])
      BY <2>1 DEF Piped, Answered
    <2>3. got[cur] = 0 /\ ~ curlErrors => Convertible(cur)
      BY <2>2 DEF Convertible
    <2>4. cur \in converted' => cur \in converted \/ Convertible(cur)
      BY <1>0, <1>2, <2>1, <2>3
    <2>5. \A u \in converted' : Convertible(u)
      BY <1>1, <2>1, <2>4
    <2> QED BY <1>0, <2>1, <2>5 DEF NoErrorConverted, Convertible
  <1>5. CASE Abandon
    <2>1. /\ cur \in URLs /\ UNCHANGED got /\ got[cur] > 0
          /\ converted' \in {converted, converted \cup {cur}}
      BY <1>0, <1>5 DEF Abandon
    <2>2. \A u \in converted' : Convertible(u)
      BY <1>1, <1>2, <2>1
    <2> QED BY <1>0, <2>1, <2>2 DEF NoErrorConverted, Convertible
  <1>6. CASE Launch \/ PipeFails \/ WaitCurl \/ Answer \/ StepEnds
    <2>1. UNCHANGED <<got, converted>>
      BY <1>6 DEF Launch, PipeFails, WaitCurl, Answer, StepEnds
    <2> QED BY <1>0, <2>1 DEF NoErrorConverted
  <1> QED BY <1>3, <1>4, <1>5, <1>6 DEF Step

-----------------------------------------------------------------------------
(* The theorems *)

LEMMA NextInv ==
    ASSUME SoundButLast, Inv, [Next]_vars
    PROVE  Inv'
  <1>0. TypeOK /\ InTurn /\ Answered /\ Piped /\ NoErrorConverted /\ TypeOK'
    BY NextType DEF Inv
  <1>1. CASE Step
    BY <1>0, <1>1, StepInTurn, StepAnswered, StepPiped, StepConverts DEF Inv
  <1>2. CASE Download
    <2>1. PICK u \in URLs : \/ Callback(u) \/ Write(u) \/ Performs(u)
                            \/ Tells(u) \/ Closes(u) \/ CleansUp(u)
      BY <1>2 DEF Download
    <2>2. UNCHANGED <<urls, got, converted>>
      BY <2>1 DEF Callback, Write, Performs, Tells, Closes, CleansUp, stepVars
    <2>3. NoErrorConverted'
      BY <1>0, <2>2 DEF NoErrorConverted
    <2>4. InTurn' /\ Answered' /\ Piped'
      BY <1>0, <2>1, DownloadInTurn, DownloadAnswered, DownloadPiped
    <2> QED BY <1>0, <2>3, <2>4 DEF Inv
  <1>3. CASE Execute \/ UNCHANGED vars
    <2>1. UNCHANGED <<urls, sharedVars, stepVars, downloadVars>>
      BY <1>3 DEF Execute, CleanJoins, CleanEnds, Exit, vars
    <2>2. InTurn' /\ Answered'
      BY <1>0, <2>1 DEF InTurn, Answered, Quiet, URLs, sharedVars, stepVars,
                        downloadVars
    <2>3. Piped' /\ NoErrorConverted'
      BY <1>0, <2>1 DEF Piped, NoErrorConverted, URLs, stepVars, downloadVars
    <2> QED BY <1>0, <2>2, <2>3 DEF Inv
  <1> QED BY <1>1, <1>2, <1>3 DEF Next, Terminating

LEMMA Invariant ==
    ASSUME SoundButLast
    PROVE  Spec => []Inv
  <1>1. Inv /\ [Next]_vars => Inv'
    BY NextInv
  <1> QED BY <1>1, InitInv, PTL DEF Spec

\* When only the last URL may be broken, the answer that input_curl waits for
\* and the error flag that the step reads at the end of the data are those of
\* the download of this URL, for any number of URLs and any size of the pipe.
THEOREM AnswersAreOwn ==
    ASSUME SoundButLast
    PROVE  Spec => []OwnAnswer
  <1>1. Inv => OwnAnswer
    BY DEF Inv, TypeOK, Answered, Piped, OwnAnswer
  <1> QED BY <1>1, Invariant, PTL

\* In the same requests, no page that came with an error is converted, and
\* nothing is when a download failed before any data.
THEOREM ErrorsNotConverted ==
    ASSUME SoundButLast
    PROVE  Spec => []NoErrorConverted
  <1>1. Inv => NoErrorConverted
    BY DEF Inv
  <1> QED BY <1>1, Invariant, PTL

=============================================================================
