----------------------------- MODULE CurlInput ------------------------------
(***************************************************************************)
(* Input from URLs: input_curl starts a thread that downloads the URL into *)
(* a pipe, waits until it is known whether the URL can be accessed, and    *)
(* the step that reads the inputs then reads the pipe.                     *)
(*                                                                         *)
(* The step and the downloads share one condition variable, one answer     *)
(* (go) and one error flag (curl_errors) for all URLs.  srcml_execute runs *)
(* the step in a thread and joins the downloads while it runs.             *)
(*                                                                         *)
(* What a URL has is counted in chunks: the data of one call of the write  *)
(* callback.  Waits end only when notified.                                *)
(***************************************************************************)
EXTENDS Integers, Sequences

CONSTANTS
    Requests,       \* the sequences of URLs that may be asked for
    PipeSize,       \* chunks in a pipe that nobody reads
    PipesFail       \* pipe() may fail

\* what a URL answers: a status, some data, and whether the transfer ends
\* well; and whether libarchive can make sense of it to the end
URL == [code : {200, 404}, chunks : Nat, complete : BOOLEAN, sound : BOOLEAN]

ASSUME CurlAssumption ==
    /\ Requests \subseteq Seq(URL)
    /\ PipeSize \in Nat \ {0}
    /\ PipesFail \in BOOLEAN

VARIABLES
    urls,           \* the URLs of this request
    go, curlErrors, \* shared by all
    waiting,        \* the step waits on cv
    step,           \* where the step that reads the inputs is
    cur,            \* the URL it is at
    got,            \* chunks it has read of each
    download,       \* where the thread of each URL is
    sent,           \* chunks it has written
    closed,         \* it has closed the pipe
    lthreads,       \* srcml_pipe: the threads to join, as a sequence of URLs
    joined,         \* how many srcml_pipe_clean has joined
    exec,           \* where srcml_execute is
    answerer,       \* history: the URL go was last set for
    converted       \* history: the URLs whose data was scheduled

downloadVars == <<download, sent, closed>>
sharedVars == <<go, curlErrors, waiting, answerer>>
stepVars == <<step, cur, got, converted>>
execVars == <<joined, exec>>
vars == <<urls, sharedVars, stepVars, downloadVars, lthreads, execVars>>

URLs == 1..Len(urls)

\* curl_easy_perform: what it returns
Response(u) == u.complete /\ (u.code = 200 \/ u.chunks = 0)

InPipe(u) == sent[u] - got[u]

Init ==
    /\ urls \in Requests
    /\ go = FALSE /\ curlErrors = FALSE /\ waiting = FALSE /\ answerer = 0
    /\ step = "next" /\ cur = 0 /\ converted = {}
    /\ got = [u \in URLs |-> 0]
    /\ download = [u \in URLs |-> "none"]
    /\ sent = [u \in URLs |-> 0]
    /\ closed = [u \in URLs |-> FALSE]
    /\ lthreads = << >> /\ joined = 0
    /\ exec = "clean"

-----------------------------------------------------------------------------
(* The thread of a download *)

Goto(u, pc) == download' = [download EXCEPT ![u] = pc]

goCurl(u, flag) == go' = flag /\ answerer' = u /\ waiting' = FALSE

\* mutant: the page that comes with an error is taken for the data
CallbackAny(u) ==
    /\ download[u] = "perform" /\ sent[u] < urls[u].chunks
    /\ goCurl(u, TRUE)
    /\ Goto(u, "write")
    /\ UNCHANGED <<urls, curlErrors, stepVars, sent, closed, lthreads, execVars>>

\* our_curl_write_callback: there is data, and the status is good
Callback(u) ==
    /\ download[u] = "perform" /\ sent[u] < urls[u].chunks
    /\ urls[u].code = 200
    /\ goCurl(u, TRUE)
    /\ Goto(u, "write")
    /\ UNCHANGED <<urls, curlErrors, stepVars, sent, closed, lthreads, execVars>>

\* write(): as long as there is room in the pipe, whoever reads it
Write(u) ==
    /\ download[u] = "write"
    /\ InPipe(u) < PipeSize
    /\ sent' = [sent EXCEPT ![u] = @ + 1]
    /\ Goto(u, "perform")
    /\ UNCHANGED <<urls, sharedVars, stepVars, closed, lthreads, execVars>>

\* curl_easy_perform returns
Performs(u) ==
    /\ download[u] = "perform"
    /\ urls[u].code = 200 => sent[u] = urls[u].chunks
    /\ curlErrors' = ~ Response(urls[u])
    /\ Goto(u, "tell")
    /\ UNCHANGED <<urls, go, waiting, answerer, stepVars, sent, closed,
                   lthreads, execVars>>

\* mutant: the pipe is closed before the answer is given
TellsLate(u) ==
    \/ /\ download[u] = "tell" /\ ~ closed[u]
       /\ closed' = [closed EXCEPT ![u] = TRUE]
       /\ UNCHANGED <<urls, sharedVars, stepVars, download, sent, lthreads,
                      execVars>>
    \/ /\ download[u] = "tell" /\ closed[u]
       /\ goCurl(u, Response(urls[u]))
       /\ Goto(u, "close")
       /\ UNCHANGED <<urls, curlErrors, stepVars, sent, closed, lthreads,
                      execVars>>

Tells(u) ==
    /\ download[u] = "tell"
    /\ goCurl(u, Response(urls[u]))
    /\ Goto(u, "close")
    /\ UNCHANGED <<urls, curlErrors, stepVars, sent, closed, lthreads, execVars>>

\* mutant: the pipe is left open
ClosesNothing(u) ==
    /\ download[u] = "close"
    /\ Goto(u, "cleanup")
    /\ UNCHANGED <<urls, sharedVars, stepVars, sent, closed, lthreads, execVars>>

Closes(u) ==
    /\ download[u] = "close"
    /\ closed' = [closed EXCEPT ![u] = TRUE]
    /\ Goto(u, "cleanup")
    /\ UNCHANGED <<urls, sharedVars, stepVars, sent, lthreads, execVars>>

\* curl_easy_cleanup, curl_global_cleanup, and the end of the thread
CleansUp(u) ==
    /\ download[u] = "cleanup"
    /\ Goto(u, "ended")
    /\ UNCHANGED <<urls, sharedVars, stepVars, sent, closed, lthreads, execVars>>

Download ==
    \E u \in URLs : \/ Callback(u) \/ Write(u) \/ Performs(u)
                    \/ Tells(u) \/ Closes(u) \/ CleansUp(u)

-----------------------------------------------------------------------------
(* The step that reads the inputs: create_srcml, by src_input_libarchive *)

\* input_curl: srcml_pipe starts the thread
Launch ==
    /\ step = "next" /\ cur < Len(urls)
    /\ cur' = cur + 1
    /\ download' = [download EXCEPT ![cur'] = "perform"]
    /\ lthreads' = Append(lthreads, cur')
    /\ step' = "call"
    /\ UNCHANGED <<urls, sharedVars, got, converted, sent, closed, execVars>>

\* pipe() fails: there is no thread, and input_curl waits all the same
PipeFails ==
    /\ PipesFail /\ step = "next" /\ cur < Len(urls)
    /\ cur' = cur + 1
    /\ step' = "call"
    /\ UNCHANGED <<urls, sharedVars, got, converted, downloadVars, lthreads,
                   execVars>>

\* waitCurl: lock and wait
WaitCurl ==
    /\ step = "call" /\ step' = "wait"
    /\ waiting' = TRUE
    /\ UNCHANGED <<urls, go, curlErrors, answerer, cur, got, converted,
                   downloadVars, lthreads, execVars>>

\* the end of the wait: the URL is read, or given up
Answer ==
    /\ step = "wait" /\ ~ waiting
    /\ step' = IF go THEN "read" ELSE "next"
    /\ UNCHANGED <<urls, sharedVars, cur, got, converted, downloadVars,
                   lthreads, execVars>>

Read ==
    /\ step = "read" /\ InPipe(cur) > 0
    /\ got' = [got EXCEPT ![cur] = @ + 1]
    /\ UNCHANGED <<urls, sharedVars, step, cur, converted, downloadVars,
                   lthreads, execVars>>

\* mutant: an empty pipe is taken for the end of the data
ReadEndsEarly ==
    /\ step = "read" /\ InPipe(cur) = 0
    /\ converted' = IF got[cur] = 0 /\ curlErrors THEN converted
                    ELSE converted \cup {cur}
    /\ step' = "next"
    /\ UNCHANGED <<urls, sharedVars, cur, got, downloadVars, lthreads, execVars>>

\* the end of the data; if there was none, it may be because of an error
ReadEnds ==
    /\ step = "read" /\ InPipe(cur) = 0 /\ closed[cur]
    /\ converted' = IF got[cur] = 0 /\ curlErrors THEN converted
                    ELSE converted \cup {cur}
    /\ step' = "next"
    /\ UNCHANGED <<urls, sharedVars, cur, got, downloadVars, lthreads, execVars>>

\* a broken archive or a broken compression is read as far as libarchive
\* gets, the part before it may be converted, and the pipe is not closed
Abandon ==
    /\ step = "read" /\ ~ urls[cur].sound /\ got[cur] > 0
    /\ converted' \in {converted, converted \cup {cur}}
    /\ step' = "next"
    /\ UNCHANGED <<urls, sharedVars, cur, got, downloadVars, lthreads, execVars>>

StepEnds ==
    /\ step = "next" /\ cur = Len(urls)
    /\ step' = "done"
    /\ UNCHANGED <<urls, sharedVars, cur, got, converted, downloadVars,
                   lthreads, execVars>>

Step == Launch \/ PipeFails \/ WaitCurl \/ Answer \/ Read \/ ReadEnds
        \/ Abandon \/ StepEnds

-----------------------------------------------------------------------------
(* srcml_execute, after it has started the steps *)

\* srcml_pipe_clean: join the next thread of the list
CleanJoins ==
    /\ exec = "clean" /\ joined < Len(lthreads)
    /\ download[lthreads[joined + 1]] = "ended"
    /\ joined' = joined + 1
    /\ UNCHANGED <<urls, sharedVars, stepVars, downloadVars, lthreads, exec>>

\* there is no other one now
CleanEnds ==
    /\ exec = "clean" /\ joined = Len(lthreads)
    /\ exec' = "steps"
    /\ UNCHANGED <<urls, sharedVars, stepVars, downloadVars, lthreads, joined>>

\* the thread of the step is joined, and srcml exits
Exit ==
    /\ exec = "steps" /\ step = "done"
    /\ exec' = "exit"
    /\ UNCHANGED <<urls, sharedVars, stepVars, downloadVars, lthreads, joined>>

Execute == CleanJoins \/ CleanEnds \/ Exit

\* exit() ends the downloads that still run
Running == exec # "exit"

Terminating == ~ Running /\ UNCHANGED vars

Next == (Running /\ (Step \/ Execute \/ Download)) \/ Terminating

\* threads run, and a transfer ends (LOW_SPEED_TIME sees to it); a download
\* takes finitely many steps, so that one condition does for all of them
Fairness == /\ WF_vars(Step) /\ WF_vars(Execute)
            /\ WF_vars(Running /\ Download)

Spec == Init /\ [][Next]_vars

FairSpec == Spec /\ Fairness

-----------------------------------------------------------------------------
(* Properties *)

\* Although go and curl_errors are shared, the answer the step takes for a URL
\* is that of the download of this URL, never one of an earlier download; and
\* when all its data is read, curl_errors tells whether its own download failed.
OwnAnswer ==
    /\ step = "wait" /\ ~ waiting => answerer = cur
    /\ step = "read" /\ closed[cur] => curlErrors = ~ Response(urls[cur])

\* The page that comes with an error is not converted as if it were source
\* code, and neither is the absence of any data when the download failed.
NoErrorConverted ==
    \A u \in converted : \/ urls[u].code = 200 /\ got[u] > 0
                         \/ Response(urls[u])

\* Once a URL has answered, the step reads it to the end and goes on, however
\* much more the URL has than the pipe holds.
GoesOn == step = "read" ~> step # "read"

\* a URL has a broken archive with more data than the pipe holds
BrokenBeyondPipe ==
    \E u \in URLs : ~ urls[u].sound /\ urls[u].chunks > PipeSize

\* When the step has come past the last input srcml exits: every download it
\* joins has ended, those that failed and those whose archive was given up
\* included.  Except for a broken archive larger than the pipe: the step leaves
\* its rest unread and the pipe open, write() blocks in the download, and the
\* join may never return.
Exits == BrokenBeyondPipe \/ (step = "done" ~> exec = "exit")
=============================================================================
