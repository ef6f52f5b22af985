------------------------------ MODULE WebCache ------------------------------
(***************************************************************************)
(* web/app.py: the stand-in for the cloud's web server.  On the hub's      *)
(* request for credentials it fetches what it does not have (firmware      *)
(* pages once per hub, credentials once per hub firmware version) from the *)
(* cloud into files, and answers from the files.  Flask runs a thread per  *)
(* request and nothing is locked: a file is there from the moment it is    *)
(* opened for writing, and complete when it is closed.                     *)
(*                                                                         *)
(* One hub; it repeats a request that failed or took too long, so several  *)
(* can be in progress.  Firmware downloads are enabled.  Flask is a 2.0,   *)
(* whose send_file takes the argument names of both routes.                *)
(***************************************************************************)
EXTENDS Naturals

CONSTANTS
    Threads,   \* server threads
    Versions,  \* firmware versions the hub runs over time
    LastPage   \* the page the count in the header page leads to

ASSUME WebAssumption == LastPage \in Nat \ {0}

VARIABLES
    firmware,  \* firmware[p]: the file of page p
    original,  \* original[v]: the credentials as the cloud sent them
    creds,     \* creds[v]: the credentials rewritten for the local broker
    at,        \* at[t]: where thread t is in credentials()
    version,   \* version[t]: firmware_version of its request
    page,      \* page[t]: the page it downloads
    reply,     \* reply[t]: the content of its last answer
    overlap,   \* history: two requests have been in progress at a time
    died       \* history: the server has died during a request

files == <<firmware, original, creds>>
history == <<overlap, died>>
webVars == <<files, at, version, page, reply, history>>

Pages == 0 .. LastPage
FileStates == {"absent", "empty", "whole"}
Replies == {"none", "error", "empty", "whole"}
Places == {"idle", "post", "write", "header", "check", "postCreds",
           "writeOriginal", "rewrite", "writeCreds", "serve"}

Init ==
    /\ firmware = [p \in Pages |-> "absent"]
    /\ original = [v \in Versions |-> "absent"]
    /\ creds = [v \in Versions |-> "absent"]
    /\ at = [t \in Threads |-> "idle"]
    /\ version \in [Threads -> Versions]
    /\ page = [t \in Threads |-> 0]
    /\ reply = [t \in Threads |-> "none"]
    /\ overlap = FALSE /\ died = FALSE

Busy(t) == at[t] # "idle"
Goto(t, place) == at' = [at EXCEPT ![t] = place]

\* The thread answers r and is done.
Answer(t, r) == Goto(t, "idle") /\ reply' = [reply EXCEPT ![t] = r]

\* A request of any kind has reached thread t.
Arrive(t) ==
    /\ ~ Busy(t)
    /\ overlap' = (overlap \/ \E u \in Threads \ {t} : Busy(u))
    /\ UNCHANGED died

-----------------------------------------------------------------------------
(* credentials(): the firmware *)

\* The first page is missing: download the firmware.
AskFirst(t, v) ==
    /\ Arrive(t) /\ firmware[0] = "absent"
    /\ version' = [version EXCEPT ![t] = v]
    /\ page' = [page EXCEPT ![t] = 0]
    /\ reply' = [reply EXCEPT ![t] = "none"]
    /\ Goto(t, "post")
    /\ UNCHANGED files

\* Mutant: a download cut short is an error for good.
AskCachedComplete(t, v) ==
    /\ Arrive(t) /\ firmware[0] # "absent"
    /\ version' = [version EXCEPT ![t] = v]
    /\ IF \A p \in Pages : firmware[p] # "absent"
       THEN Goto(t, "check") /\ reply' = [reply EXCEPT ![t] = "none"]
       ELSE Answer(t, "error")
    /\ UNCHANGED <<files, page>>

\* "Firmware already downloaded"
AskCached(t, v) ==
    /\ Arrive(t) /\ firmware[0] # "absent"
    /\ version' = [version EXCEPT ![t] = v]
    /\ reply' = [reply EXCEPT ![t] = "none"]
    /\ Goto(t, "check")
    /\ UNCHANGED <<files, page>>

\* dlfirmware: the cloud's answer is written to a file opened afresh ...
PostPage(t) ==
    /\ at[t] = "post"
    /\ firmware' = [firmware EXCEPT ![page[t]] = "empty"]
    /\ Goto(t, "write")
    /\ UNCHANGED <<original, creds, version, page, reply, history>>

\* ... and closed; the header page is read next, the last one ends the download.
WritePage(t) ==
    /\ at[t] = "write"
    /\ firmware' = [firmware EXCEPT ![page[t]] = "whole"]
    /\ IF page[t] = 0 THEN Goto(t, "header") /\ UNCHANGED page
       ELSE IF page[t] < LastPage THEN Goto(t, "post") /\ page' = [page EXCEPT ![t] = @ + 1]
       ELSE Goto(t, "check") /\ UNCHANGED page
    /\ UNCHANGED <<original, creds, version, reply, history>>

\* Mutant: the first of the remaining pages is skipped.
ReadHeaderSkips(t) ==
    /\ at[t] = "header"
    /\ IF firmware[0] = "whole"
       THEN /\ page' = [page EXCEPT ![t] = LastPage]
            /\ Goto(t, "post") /\ UNCHANGED reply
       ELSE Answer(t, "error") /\ UNCHANGED page
    /\ UNCHANGED <<files, version, history>>

\* The record count is read from the file; another thread may just have opened
\* it for writing, and then splitting nothing raises.
ReadHeader(t) ==
    /\ at[t] = "header"
    /\ IF firmware[0] = "whole"
       THEN /\ page' = [page EXCEPT ![t] = 1]
            /\ Goto(t, "post") /\ UNCHANGED reply
       ELSE Answer(t, "error") /\ UNCHANGED page
    /\ UNCHANGED <<files, version, history>>

-----------------------------------------------------------------------------
(* credentials(): the credentials *)

\* Mutant: the credentials are fetched anew for every request.
CheckAlways(t) ==
    /\ at[t] = "check"
    /\ Goto(t, "postCreds")
    /\ UNCHANGED <<files, version, page, reply, history>>

\* Mutant: the presence of the original stands for that of the rewritten file.
CheckOriginal(t) ==
    /\ at[t] = "check"
    /\ Goto(t, IF original[version[t]] = "absent" THEN "postCreds" ELSE "serve")
    /\ UNCHANGED <<files, version, page, reply, history>>

Check(t) ==
    /\ at[t] = "check"
    /\ Goto(t, IF creds[version[t]] = "absent" THEN "postCreds" ELSE "serve")
    /\ UNCHANGED <<files, version, page, reply, history>>

PostCreds(t) ==
    /\ at[t] = "postCreds"
    /\ original' = [original EXCEPT ![version[t]] = "empty"]
    /\ Goto(t, "writeOriginal")
    /\ UNCHANGED <<firmware, creds, version, page, reply, history>>

WriteOriginal(t) ==
    /\ at[t] = "writeOriginal"
    /\ original' = [original EXCEPT ![version[t]] = "whole"]
    /\ Goto(t, "rewrite")
    /\ UNCHANGED <<firmware, creds, version, page, reply, history>>

\* Topic and host name are replaced, and the file is opened.
Rewrite(t) ==
    /\ at[t] = "rewrite"
    /\ creds' = [creds EXCEPT ![version[t]] = "empty"]
    /\ Goto(t, "writeCreds")
    /\ UNCHANGED <<firmware, original, version, page, reply, history>>

\* Mutant: a file is not closed before it is sent.
WriteCredsUnflushed(t) ==
    /\ at[t] = "writeCreds"
    /\ Goto(t, "serve")
    /\ UNCHANGED <<files, version, page, reply, history>>

WriteCreds(t) ==
    /\ at[t] = "writeCreds"
    /\ creds' = [creds EXCEPT ![version[t]] = "whole"]
    /\ Goto(t, "serve")
    /\ UNCHANGED <<firmware, original, version, page, reply, history>>

\* send_file: whatever is in the file now.
Serve(t) ==
    /\ at[t] = "serve"
    /\ Answer(t, creds[version[t]])
    /\ UNCHANGED <<files, version, page, history>>

-----------------------------------------------------------------------------
\* The cloud does not answer, answers with an error status, or sends a header or
\* credentials that do not split into their fields: the request ends with an
\* error, and what was written before stays.
Fail(t) ==
    /\ at[t] \in {"post", "header", "postCreds", "rewrite"}
    /\ Answer(t, "error")
    /\ UNCHANGED <<files, version, page, history>>

\* firmware(): a page is sent as it is, a missing one raises.
Firmware(t, p) ==
    /\ Arrive(t)
    /\ reply' = [reply EXCEPT ![t] = IF firmware[p] = "absent" THEN "error" ELSE firmware[p]]
    /\ UNCHANGED <<files, at, version, page>>

\* The server is stopped in the middle of a request and started again.
Restart ==
    /\ \E t \in Threads : Busy(t)
    /\ at' = [t \in Threads |-> "idle"]
    /\ reply' = [t \in Threads |-> IF Busy(t) THEN "error" ELSE reply[t]]
    /\ died' = TRUE
    /\ UNCHANGED <<files, version, page, overlap>>

Credentials(t) ==
    \/ PostPage(t) \/ WritePage(t) \/ ReadHeader(t)
    \/ Check(t) \/ PostCreds(t) \/ WriteOriginal(t) \/ Rewrite(t) \/ WriteCreds(t)
    \/ Serve(t)

Ask(t) == \E v \in Versions : AskFirst(t, v) \/ AskCached(t, v)

Next ==
    \/ \E t \in Threads : \/ Ask(t) \/ Credentials(t) \/ Fail(t)
                          \/ \E p \in Pages : Firmware(t, p)
    \/ Restart

\* A hub asks for its credentials again and again; a thread does not stop by
\* itself; and the cloud answers, in good order, a request repeated often enough.
Fairness ==
    /\ WF_webVars(\E t \in Threads : Ask(t))
    /\ \A t \in Threads :
         /\ WF_webVars(Credentials(t))
         /\ SF_webVars(PostPage(t)) /\ SF_webVars(ReadHeader(t))
         /\ SF_webVars(PostCreds(t)) /\ SF_webVars(Rewrite(t))

Spec == Init /\ [][Next]_webVars
FairSpec == Spec /\ Fairness

-----------------------------------------------------------------------------
\* Type invariant: a thread is in the middle of a file only if it is there, and
\* sends credentials only from a file that is.
TypeOK ==
    /\ firmware \in [Pages -> FileStates]
    /\ original \in [Versions -> FileStates] /\ creds \in [Versions -> FileStates]
    /\ at \in [Threads -> Places]
    /\ version \in [Threads -> Versions]
    /\ page \in [Threads -> Pages]
    /\ reply \in [Threads -> Replies]
    /\ overlap \in BOOLEAN /\ died \in BOOLEAN
    /\ \A t \in Threads :
         /\ at[t] \in {"write", "header"} => firmware[page[t]] # "absent"
         /\ at[t] \in {"writeOriginal", "rewrite", "writeCreds"} => original[version[t]] # "absent"
         /\ at[t] \in {"writeCreds", "serve"} => creds[version[t]] # "absent"

\* However requests overlap, fail or die, the pages on disk have no hole: the
\* page the hub asks for next is missing only if all later ones are.
NoHoles ==
    \A p, q \in Pages : p < q /\ firmware[q] # "absent" => firmware[p] # "absent"

\* A truncated file is sent to the hub only if requests overlapped or the server
\* died while it was written: one request at a time always gets whole files,
\* failures of the cloud included.
TruncatedOnlyByAccident ==
    \A t \in Threads : reply[t] = "empty" => overlap \/ died

\* Once a request at a time has brought the credentials, they are not fetched
\* again for this version: no later request alters the file.
FetchedOnce ==
    [][\A v \in Versions : creds[v] = "whole" /\ ~ overlap' => creds'[v] = "whole"]_webVars

Writing(v) == \E t \in Threads : at[t] = "writeCreds" /\ version[t] = v

\* A server that is restarted a finite number of times sends its hub complete
\* credentials again and again, whatever fails on the way: in particular firmware
\* that could not be downloaded does not keep them back for ever.  The one
\* exception is a server that died between opening and closing the file.
CredentialsServed ==
    <>[][~ Restart]_webVars =>
        \/ \E v \in Versions : <>[](creds[v] = "empty" /\ ~ Writing(v))
        \/ \E t \in Threads : []<><<Serve(t) /\ creds[version[t]] = "whole">>_webVars
=============================================================================
