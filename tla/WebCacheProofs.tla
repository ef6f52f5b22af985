-------------------------- MODULE WebCacheProofs --------------------------
(***************************************************************************)
(* Proofs about WebCache, for any number of server threads, firmware       *)
(* versions and pages.                                                     *)
(***************************************************************************)
EXTENDS WebCache, TLAPS

LEMMA FirstPage == 0 \in Pages /\ 1 \in Pages /\ \A p \in Pages : p < LastPage => p + 1 \in Pages
  BY WebAssumption DEF Pages

LEMMA InitTypeOK == Init => TypeOK
<1> SUFFICES ASSUME Init PROVE TypeOK
  OBVIOUS
<1>1. /\ firmware \in [Pages -> FileStates]
      /\ original \in [Versions -> FileStates] /\ creds \in [Versions -> FileStates]
      /\ at \in [Threads -> Places] /\ reply \in [Threads -> Replies]
  BY DEF Init, FileStates, Places, Replies
<1>2. page \in [Threads -> Pages] /\ version \in [Threads -> Versions]
  BY FirstPage DEF Init
<1>3. \A t \in Threads : at[t] = "idle"
  BY DEF Init
<1>4. overlap \in BOOLEAN /\ died \in BOOLEAN
  BY DEF Init
<1>5. QED
  BY <1>1, <1>2, <1>3, <1>4 DEF TypeOK

\* The steps of the firmware download keep the types.
LEMMA FirmwareTypeOK ==
  ASSUME TypeOK, NEW t \in Threads, PostPage(t) \/ WritePage(t) \/ ReadHeader(t)
  PROVE  TypeOK'
<1>1. CASE PostPage(t)
  BY <1>1 DEF PostPage, TypeOK, Goto, Places, FileStates, history
<1>2. CASE WritePage(t)
  BY <1>2, FirstPage DEF WritePage, TypeOK, Goto, Places, FileStates, history
<1>3. CASE ReadHeader(t)
  BY <1>3, FirstPage DEF ReadHeader, TypeOK, Goto, Answer, Places, Replies, files, history
<1>4. QED
  BY <1>1, <1>2, <1>3

\* So do those of the credentials download.
LEMMA CredentialsTypeOK ==
  ASSUME TypeOK, NEW t \in Threads,
         Check(t) \/ PostCreds(t) \/ WriteOriginal(t) \/ Rewrite(t) \/ WriteCreds(t) \/ Serve(t)
  PROVE  TypeOK'
<1>1. CASE Check(t)
  BY <1>1 DEF Check, TypeOK, Goto, Places, FileStates, files, history
<1>2. CASE PostCreds(t)
  BY <1>2 DEF PostCreds, TypeOK, Goto, Places, FileStates, history
<1>3. CASE WriteOriginal(t)
  BY <1>3 DEF WriteOriginal, TypeOK, Goto, Places, FileStates, history
<1>4. CASE Rewrite(t)
  BY <1>4 DEF Rewrite, TypeOK, Goto, Places, FileStates, history
<1>5. CASE WriteCreds(t)
  BY <1>5 DEF WriteCreds, TypeOK, Goto, Places, FileStates, history
<1>6. CASE Serve(t)
  BY <1>6 DEF Serve, TypeOK, Goto, Answer, Places, Replies, FileStates, files, history
<1>7. QED
  BY <1>1, <1>2, <1>3, <1>4, <1>5, <1>6

LEMMA NextTypeOK == TypeOK /\ [Next]_webVars => TypeOK'
<1> SUFFICES ASSUME TypeOK, [Next]_webVars PROVE TypeOK'
  OBVIOUS
<1>1. ASSUME NEW t \in Threads, Ask(t) PROVE TypeOK'
  <2>1. ASSUME NEW v \in Versions, AskFirst(t, v) PROVE TypeOK'
    BY <2>1, FirstPage DEF AskFirst, Arrive, Busy, TypeOK, Goto, Places, Replies, files
  <2>2. ASSUME NEW v \in Versions, AskCached(t, v) PROVE TypeOK'
    BY <2>2 DEF AskCached, Arrive, Busy, TypeOK, Goto, Places, Replies, files
  <2>3. QED
    BY <1>1, <2>1, <2>2 DEF Ask
<1>2. ASSUME NEW t \in Threads, Credentials(t) PROVE TypeOK'
  BY <1>2, FirmwareTypeOK, CredentialsTypeOK DEF Credentials
<1>3. ASSUME NEW t \in Threads, Fail(t) PROVE TypeOK'
  BY <1>3 DEF Fail, TypeOK, Goto, Answer, Places, Replies, files, history
<1>4. ASSUME NEW t \in Threads, NEW p \in Pages, Firmware(t, p) PROVE TypeOK'
  BY <1>4 DEF Firmware, Arrive, Busy, TypeOK, FileStates, Replies, files
<1>5. CASE Restart
  BY <1>5 DEF Restart, TypeOK, Places, Replies, files
<1>6. CASE UNCHANGED webVars
  BY <1>6 DEF webVars, files, history, TypeOK
<1>7. QED
  BY <1>1, <1>2, <1>3, <1>4, <1>5, <1>6 DEF Next

\* Whatever the threads, a file a thread is working on, or sends, is there.
THEOREM FilesAreThere == Spec => []TypeOK
  BY InitTypeOK, NextTypeOK, PTL DEF Spec

-----------------------------------------------------------------------------
(* NoHoles is not inductive by itself: a thread may open the page it is at, *)
(* which is safe only because it has written all the earlier ones.          *)

BelowIsThere ==
    \A t \in Threads : at[t] \in {"post", "write"} =>
        \A p \in Pages : p < page[t] => firmware[p] # "absent"

DownloadInv == TypeOK /\ NoHoles /\ BelowIsThere

\* A page that is there is never taken away.
LEMMA PagesStay ==
  ASSUME TypeOK, [Next]_webVars, NEW p \in Pages, firmware[p] # "absent"
  PROVE  firmware'[p] # "absent"
<1>1. ASSUME NEW t \in Threads, Credentials(t) PROVE firmware'[p] # "absent"
  BY <1>1 DEF Credentials, PostPage, WritePage, ReadHeader, Check, PostCreds, WriteOriginal,
              Rewrite, WriteCreds, Serve, files, TypeOK
<1>2. ASSUME NEW t \in Threads, Ask(t) \/ Fail(t) \/ \E q \in Pages : Firmware(t, q)
      PROVE  firmware'[p] # "absent"
  BY <1>2 DEF Ask, AskFirst, AskCached, Fail, Firmware, files
<1>3. CASE Restart \/ UNCHANGED webVars
  BY <1>3 DEF Restart, webVars, files
<1>4. QED
  BY <1>1, <1>2, <1>3 DEF Next

\* A page is opened only by a thread that is at it.
LEMMA OnlyPostOpens ==
  ASSUME TypeOK, [Next]_webVars, NEW p \in Pages, firmware[p] = "absent", firmware'[p] # "absent"
  PROVE  \E t \in Threads : at[t] \in {"post", "write"} /\ page[t] = p
<1>1. CASE \E t \in Threads : Credentials(t)
  BY <1>1 DEF Credentials, PostPage, WritePage, ReadHeader, Check, PostCreds, WriteOriginal,
              Rewrite, WriteCreds, Serve, files, TypeOK
<1>2. ASSUME NEW t \in Threads, Ask(t) \/ Fail(t) \/ \E q \in Pages : Firmware(t, q)
      PROVE  FALSE
  BY <1>2 DEF Ask, AskFirst, AskCached, Fail, Firmware, files
<1>3. CASE Restart \/ UNCHANGED webVars
  BY <1>3 DEF Restart, webVars, files
<1>4. QED
  BY <1>1, <1>2, <1>3 DEF Next

LEMMA NextNoHoles == DownloadInv /\ [Next]_webVars => NoHoles'
<1> SUFFICES ASSUME DownloadInv, [Next]_webVars,
                    NEW p \in Pages, NEW q \in Pages, p < q, firmware'[q] # "absent"
             PROVE  firmware'[p] # "absent"
  BY DEF NoHoles
<1>1. CASE firmware[q] # "absent"
  BY <1>1, PagesStay DEF DownloadInv, NoHoles
<1>2. CASE firmware[q] = "absent"
  <2>1. PICK t \in Threads : at[t] \in {"post", "write"} /\ page[t] = q
    BY <1>2, OnlyPostOpens DEF DownloadInv
  <2>2. firmware[p] # "absent"
    BY <2>1 DEF DownloadInv, BelowIsThere
  <2>3. QED
    BY <2>2, PagesStay DEF DownloadInv
<1>3. QED
  BY <1>1, <1>2

\* A thread moves to the next page from a page it has written.
LEMMA NextBelowIsThere == DownloadInv /\ [Next]_webVars => BelowIsThere'
<1> SUFFICES ASSUME DownloadInv, [Next]_webVars,
                    NEW t \in Threads, at'[t] \in {"post", "write"},
                    NEW p \in Pages, p < page'[t]
             PROVE  firmware'[p] # "absent"
  BY DEF BelowIsThere
<1> USE DEF DownloadInv
<1>1. page \in [Threads -> Pages] /\ at \in [Threads -> Places] /\ firmware \in [Pages -> FileStates]
  BY DEF TypeOK
<1>2. ASSUME firmware[p] # "absent" PROVE firmware'[p] # "absent"
  BY <1>2, PagesStay
<1>3. ASSUME at[t] \in {"post", "write"}, page'[t] = page[t] PROVE firmware[p] # "absent"
  BY <1>3 DEF BelowIsThere
<1>4. ASSUME NEW u \in Threads, WritePage(u) PROVE firmware'[p] # "absent"
  <2>1. CASE u # t \/ page'[t] = page[t]
    <3>1. at[t] \in {"post", "write"} /\ page'[t] = page[t]
      BY <1>1, <1>4, <2>1 DEF WritePage, Goto
    <3>2. QED
      BY <1>2, <1>3, <3>1
  <2>2. CASE u = t /\ page'[t] # page[t]
    <3>1. at[t] = "write" /\ page'[t] = page[t] + 1
      BY <1>1, <1>4, <2>2 DEF WritePage, Goto
    <3>2. p < page[t] \/ p = page[t]
      BY <1>1, <3>1 DEF Pages
    <3>3. firmware[p] # "absent"
      BY <3>1, <3>2 DEF BelowIsThere, TypeOK
    <3>4. QED
      BY <1>2, <3>3
  <2>3. QED
    BY <2>1, <2>2
<1>5. ASSUME NEW u \in Threads, ReadHeader(u) PROVE firmware'[p] # "absent"
  <2>1. CASE u # t
    <3>1. at[t] \in {"post", "write"} /\ page'[t] = page[t]
      BY <1>1, <1>5, <2>1 DEF ReadHeader, Goto, Answer
    <3>2. QED
      BY <1>2, <1>3, <3>1
  <2>2. CASE u = t
    <3>1. firmware[0] = "whole" /\ page'[t] = 1
      BY <1>1, <1>5, <2>2 DEF ReadHeader, Goto, Answer
    <3>2. p = 0
      BY <3>1 DEF Pages
    <3>3. QED
      BY <1>2, <3>1, <3>2
  <2>3. QED
    BY <2>1, <2>2
<1>6. ASSUME NEW u \in Threads, Ask(u) PROVE firmware'[p] # "absent"
  <2>1. at[t] \in {"post", "write"} /\ page'[t] = page[t]
    BY <1>1, <1>6 DEF Ask, AskFirst, AskCached, Arrive, Busy, Goto, Pages
  <2>2. QED
    BY <1>2, <1>3, <2>1
<1>7. ASSUME NEW u \in Threads,
             \/ PostPage(u) \/ Check(u) \/ PostCreds(u) \/ WriteOriginal(u) \/ Rewrite(u)
             \/ WriteCreds(u) \/ Serve(u) \/ Fail(u) \/ \E q \in Pages : Firmware(u, q)
      PROVE  firmware'[p] # "absent"
  <2>1. at[t] \in {"post", "write"} /\ page'[t] = page[t]
    BY <1>1, <1>7 DEF PostPage, Check, PostCreds, WriteOriginal, Rewrite, WriteCreds, Serve,
                      Fail, Firmware, Goto, Answer
  <2>2. QED
    BY <1>2, <1>3, <2>1
<1>8. CASE Restart \/ UNCHANGED webVars
  <2>1. at[t] \in {"post", "write"} /\ page'[t] = page[t]
    BY <1>1, <1>8 DEF Restart, webVars
  <2>2. QED
    BY <1>2, <1>3, <2>1
<1>9. QED
  BY <1>4, <1>5, <1>6, <1>7, <1>8 DEF Next, Credentials

\* For any number of threads, versions and pages: the pages on disk have no hole.
THEOREM PagesHaveNoHoles == Spec => []NoHoles
<1>1. Init => DownloadInv
  <2>1. Init => NoHoles /\ BelowIsThere
    BY DEF Init, NoHoles, BelowIsThere
  <2>2. QED
    BY <2>1, InitTypeOK DEF DownloadInv
<1>2. DownloadInv /\ [Next]_webVars => DownloadInv'
  BY NextTypeOK, NextNoHoles, NextBelowIsThere DEF DownloadInv
<1>3. DownloadInv => NoHoles
  BY DEF DownloadInv
<1>4. QED
  BY <1>1, <1>2, <1>3, PTL DEF Spec

-----------------------------------------------------------------------------
(* A truncated answer needs an accident: without one there is at most one    *)
(* busy thread, and a file is truncated only while that thread writes it.    *)

OneBusy == overlap \/ \A t, u \in Threads : Busy(t) /\ Busy(u) => t = u

TruncatedIsWritten ==
    \/ overlap \/ died
    \/ /\ \A v \in Versions : creds[v] = "empty" => Writing(v)
       /\ \A p \in Pages : firmware[p] = "empty" => \E t \in Threads : at[t] = "write" /\ page[t] = p

AnswerInv == TypeOK /\ OneBusy /\ TruncatedIsWritten /\ TruncatedOnlyByAccident

\* An accident is not forgotten.
LEMMA AccidentsStay ==
  ASSUME [Next]_webVars
  PROVE  (overlap => overlap') /\ (died => died')
<1>1. ASSUME NEW t \in Threads, Credentials(t) \/ Fail(t) PROVE UNCHANGED <<overlap, died>>
  BY <1>1 DEF Credentials, PostPage, WritePage, ReadHeader, Check, PostCreds, WriteOriginal,
              Rewrite, WriteCreds, Serve, Fail, history
<1>2. ASSUME NEW t \in Threads, Ask(t) \/ \E q \in Pages : Firmware(t, q)
      PROVE  (overlap => overlap') /\ UNCHANGED died
  BY <1>2 DEF Ask, AskFirst, AskCached, Firmware, Arrive
<1>3. CASE Restart \/ UNCHANGED webVars
  BY <1>3 DEF Restart, webVars, history
<1>4. QED
  BY <1>1, <1>2, <1>3 DEF Next

LEMMA NextOneBusy == TypeOK /\ OneBusy /\ [Next]_webVars => OneBusy'
<1> SUFFICES ASSUME TypeOK, OneBusy, [Next]_webVars, ~ overlap',
                    NEW t \in Threads, NEW u \in Threads, Busy(t)', Busy(u)'
             PROVE  t = u
  BY DEF OneBusy
<1>1. at \in [Threads -> Places] /\ (Busy(t) /\ Busy(u) => t = u)
  BY AccidentsStay DEF TypeOK, OneBusy
<1>2. ASSUME NEW w \in Threads, Credentials(w) \/ Fail(w) PROVE t = u
  <2>1. Busy(w)
    BY <1>2 DEF Busy, Credentials, PostPage, WritePage, ReadHeader, Check, PostCreds,
                WriteOriginal, Rewrite, WriteCreds, Serve, Fail
  <2>2. \A x \in Threads \ {w} : at'[x] = at[x]
    BY <1>1, <1>2 DEF Credentials, PostPage, WritePage, ReadHeader, Check, PostCreds,
                WriteOriginal, Rewrite, WriteCreds, Serve, Fail, Goto, Answer
  <2>3. Busy(t) /\ Busy(u)
    BY <2>1, <2>2 DEF Busy
  <2>4. QED
    BY <1>1, <2>3
<1>3. ASSUME NEW w \in Threads, Ask(w) PROVE t = u
  <2>1. \A x \in Threads \ {w} : ~ Busy(x) /\ at'[x] = at[x]
    BY <1>1, <1>3 DEF Ask, AskFirst, AskCached, Arrive, Goto
  <2>2. QED
    BY <2>1 DEF Busy
<1>4. ASSUME NEW w \in Threads, \E q \in Pages : Firmware(w, q) PROVE t = u
  BY <1>1, <1>4 DEF Firmware, Busy
<1>5. CASE Restart \/ UNCHANGED webVars
  BY <1>1, <1>5 DEF Restart, webVars, Busy
<1>6. QED
  BY <1>2, <1>3, <1>4, <1>5 DEF Next

\* What the thread that moves does to the files and to itself.
LEMMA NextTruncated == AnswerInv /\ [Next]_webVars => TruncatedIsWritten'
<1> SUFFICES ASSUME AnswerInv, [Next]_webVars, ~ overlap', ~ died'
             PROVE  /\ \A v \in Versions : creds'[v] = "empty" => Writing(v)'
                    /\ \A p \in Pages : firmware'[p] = "empty" =>
                          \E t \in Threads : at'[t] = "write" /\ page'[t] = p
  BY DEF TruncatedIsWritten
<1>1. /\ ~ overlap /\ ~ died
      /\ \A v \in Versions : creds[v] = "empty" => Writing(v)
      /\ \A p \in Pages : firmware[p] = "empty" => \E t \in Threads : at[t] = "write" /\ page[t] = p
  BY AccidentsStay DEF AnswerInv, TruncatedIsWritten
<1>2. \A t, u \in Threads : at[t] # "idle" /\ at[u] # "idle" => t = u
  BY <1>1 DEF AnswerInv, OneBusy, Busy
<1>3. /\ at \in [Threads -> Places] /\ page \in [Threads -> Pages]
      /\ version \in [Threads -> Versions]
      /\ firmware \in [Pages -> FileStates] /\ creds \in [Versions -> FileStates]
  BY DEF AnswerInv, TypeOK
<1> USE DEF Writing
<1>4. ASSUME NEW t \in Threads, PostPage(t) \/ WritePage(t) \/ ReadHeader(t)
      PROVE  /\ creds' = creds /\ version' = version
             /\ \A v \in Versions : creds'[v] # "empty"
             /\ \A p \in Pages : firmware'[p] = "empty" => at'[t] = "write" /\ page'[t] = p
  BY <1>1, <1>2, <1>3, <1>4 DEF PostPage, WritePage, ReadHeader, Goto, Answer, files
<1>5. ASSUME NEW t \in Threads,
             Check(t) \/ PostCreds(t) \/ WriteOriginal(t) \/ Rewrite(t) \/ WriteCreds(t) \/ Serve(t)
      PROVE  /\ \A p \in Pages : firmware'[p] # "empty"
             /\ \A v \in Versions : creds'[v] = "empty" => at'[t] = "writeCreds" /\ version'[t] = v
  BY <1>1, <1>2, <1>3, <1>5 DEF Check, PostCreds, WriteOriginal, Rewrite, WriteCreds, Serve,
                                Goto, Answer, files
<1>6. ASSUME NEW t \in Threads, Fail(t)
      PROVE  /\ \A p \in Pages : firmware'[p] # "empty"
             /\ \A v \in Versions : creds'[v] # "empty"
  BY <1>1, <1>2, <1>3, <1>6 DEF Fail, files
<1>7. ASSUME NEW t \in Threads, Ask(t) \/ \E q \in Pages : Firmware(t, q)
      PROVE  /\ \A p \in Pages : firmware'[p] # "empty"
             /\ \A v \in Versions : creds'[v] # "empty"
  <2>1. \A u \in Threads : at[u] = "idle"
    BY <1>3, <1>7 DEF Ask, AskFirst, AskCached, Firmware, Arrive, Busy
  <2>2. firmware' = firmware /\ creds' = creds
    BY <1>7 DEF Ask, AskFirst, AskCached, Firmware, files
  <2>3. QED
    BY <1>1, <2>1, <2>2
<1>8. CASE Restart
  BY <1>8 DEF Restart
<1>9. CASE UNCHANGED webVars
  BY <1>1, <1>9 DEF webVars, files
<1>10. QED
  BY <1>4, <1>5, <1>6, <1>7, <1>8, <1>9 DEF Next, Credentials

LEMMA NextAnswers == AnswerInv /\ [Next]_webVars => TruncatedOnlyByAccident'
<1> SUFFICES ASSUME AnswerInv, [Next]_webVars, ~ overlap', ~ died',
                    NEW t \in Threads, reply'[t] = "empty"
             PROVE  FALSE
  BY DEF TruncatedOnlyByAccident
<1>1. /\ ~ overlap /\ ~ died
      /\ \A v \in Versions : creds[v] = "empty" => Writing(v)
      /\ \A p \in Pages : firmware[p] = "empty" => \E u \in Threads : at[u] = "write" /\ page[u] = p
  BY AccidentsStay DEF AnswerInv, TruncatedIsWritten
<1>2. \A u, w \in Threads : at[u] # "idle" /\ at[w] # "idle" => u = w
  BY <1>1 DEF AnswerInv, OneBusy, Busy
<1>3. reply \in [Threads -> Replies] /\ version \in [Threads -> Versions] /\ reply[t] # "empty"
  BY <1>1 DEF AnswerInv, TypeOK, TruncatedOnlyByAccident
<1>4. ASSUME NEW u \in Threads, Serve(u) PROVE FALSE
  <2>1. creds[version[u]] = "empty" /\ at[u] = "serve"
    BY <1>3, <1>4 DEF Serve, Answer
  <2>2. QED
    BY <1>1, <1>2, <1>3, <2>1 DEF Writing
<1>5. ASSUME NEW u \in Threads, NEW p \in Pages, Firmware(u, p) PROVE FALSE
  <2>1. firmware[p] = "empty"
    BY <1>3, <1>5 DEF Firmware
  <2>2. \A w \in Threads : at[w] = "idle"
    BY <1>5 DEF Firmware, Arrive, Busy
  <2>3. QED
    BY <1>1, <2>1, <2>2
<1>6. ASSUME NEW u \in Threads, Ask(u) \/ Fail(u) PROVE FALSE
  BY <1>3, <1>6 DEF Ask, AskFirst, AskCached, Fail, Answer
<1>7. ASSUME NEW u \in Threads,
             \/ PostPage(u) \/ WritePage(u) \/ ReadHeader(u)
             \/ Check(u) \/ PostCreds(u) \/ WriteOriginal(u) \/ Rewrite(u) \/ WriteCreds(u)
      PROVE  FALSE
  BY <1>3, <1>7 DEF PostPage, WritePage, ReadHeader, Check, PostCreds, WriteOriginal, Rewrite,
                    WriteCreds, Answer
<1>8. CASE Restart \/ UNCHANGED webVars
  BY <1>3, <1>8 DEF Restart, webVars
<1>9. QED
  BY <1>4, <1>5, <1>6, <1>7, <1>8 DEF Next, Credentials

\* The hub is sent a truncated file only after overlapping requests or a death of
\* the server, for any number of threads, versions and pages.
THEOREM AnswersAreWhole == Spec => []TruncatedOnlyByAccident
<1>1. Init => AnswerInv
  <2>1. Init => OneBusy /\ TruncatedIsWritten /\ TruncatedOnlyByAccident
    BY DEF Init, OneBusy, Busy, TruncatedIsWritten, TruncatedOnlyByAccident
  <2>2. QED
    BY <2>1, InitTypeOK DEF AnswerInv
<1>2. AnswerInv /\ [Next]_webVars => AnswerInv'
  BY NextTypeOK, NextOneBusy, NextTruncated, NextAnswers DEF AnswerInv
<1>3. AnswerInv => TruncatedOnlyByAccident
  BY DEF AnswerInv
<1>4. QED
  BY <1>1, <1>2, <1>3, PTL DEF Spec

-----------------------------------------------------------------------------
(* Credentials are fetched once: the file is opened for writing only by a      *)
(* thread that has found it absent, and without a second thread it still is.   *)

AbsentIsFetched ==
    overlap \/ \A t \in Threads :
        at[t] \in {"postCreds", "writeOriginal", "rewrite"} => creds[version[t]] = "absent"

FetchInv == TypeOK /\ OneBusy /\ AbsentIsFetched

LEMMA NextAbsent == FetchInv /\ [Next]_webVars => AbsentIsFetched'
<1> SUFFICES ASSUME FetchInv, [Next]_webVars, ~ overlap', NEW t \in Threads,
                    at'[t] \in {"postCreds", "writeOriginal", "rewrite"}
             PROVE  creds'[version'[t]] = "absent"
  BY DEF AbsentIsFetched
<1>1. /\ \A u \in Threads : at[u] \in {"postCreds", "writeOriginal", "rewrite"}
                                => creds[version[u]] = "absent"
      /\ \A u, w \in Threads : at[u] # "idle" /\ at[w] # "idle" => u = w
  BY AccidentsStay DEF FetchInv, AbsentIsFetched, OneBusy, Busy
<1>2. /\ at \in [Threads -> Places] /\ version \in [Threads -> Versions]
      /\ creds \in [Versions -> FileStates]
  BY DEF FetchInv, TypeOK
<1>3. ASSUME NEW u \in Threads, Check(u) \/ PostCreds(u) \/ WriteOriginal(u)
      PROVE  creds'[version'[t]] = "absent"
  BY <1>1, <1>2, <1>3 DEF Check, PostCreds, WriteOriginal, Goto, files
<1>4. ASSUME NEW u \in Threads,
             \/ PostPage(u) \/ WritePage(u) \/ ReadHeader(u) \/ Serve(u) \/ Fail(u)
      PROVE  creds'[version'[t]] = "absent"
  BY <1>1, <1>2, <1>4 DEF PostPage, WritePage, ReadHeader, Serve, Fail, Goto, Answer, files
<1>5. ASSUME NEW u \in Threads, Rewrite(u) \/ WriteCreds(u)
      PROVE  creds'[version'[t]] = "absent"
  <2>1. at[u] # "idle" /\ at'[u] \in {"writeCreds", "serve"}
    BY <1>2, <1>5 DEF Rewrite, WriteCreds, Goto
  <2>2. t # u /\ at[t] # "idle"
    BY <1>2, <1>5, <2>1 DEF Rewrite, WriteCreds, Goto
  <2>3. QED
    BY <1>1, <2>1, <2>2
<1>6. ASSUME NEW u \in Threads, Ask(u) \/ \E q \in Pages : Firmware(u, q)
      PROVE  creds'[version'[t]] = "absent"
  BY <1>1, <1>2, <1>6 DEF Ask, AskFirst, AskCached, Firmware, Arrive, Busy, Goto, files
<1>7. CASE Restart \/ UNCHANGED webVars
  BY <1>1, <1>7 DEF Restart, webVars, files
<1>8. QED
  BY <1>3, <1>4, <1>5, <1>6, <1>7 DEF Next, Credentials

\* Only a thread that opens the file afresh takes whole credentials away.
LEMMA NextFetchesOnce ==
  ASSUME FetchInv, [Next]_webVars, ~ overlap', NEW v \in Versions, creds[v] = "whole"
  PROVE  creds'[v] = "whole"
<1>1. \A u \in Threads : at[u] = "rewrite" => creds[version[u]] = "absent"
  BY AccidentsStay DEF FetchInv, AbsentIsFetched
<1>2. version \in [Threads -> Versions] /\ creds \in [Versions -> FileStates]
  BY DEF FetchInv, TypeOK
<1>3. ASSUME NEW t \in Threads, Rewrite(t) \/ WriteCreds(t) PROVE creds'[v] = "whole"
  BY <1>1, <1>2, <1>3 DEF Rewrite, WriteCreds
<1>4. ASSUME NEW t \in Threads,
             \/ PostPage(t) \/ WritePage(t) \/ ReadHeader(t) \/ Check(t) \/ PostCreds(t)
             \/ WriteOriginal(t) \/ Serve(t) \/ Fail(t) \/ Ask(t)
             \/ \E q \in Pages : Firmware(t, q)
      PROVE  creds'[v] = "whole"
  BY <1>4 DEF PostPage, WritePage, ReadHeader, Check, PostCreds, WriteOriginal, Serve, Fail,
              Ask, AskFirst, AskCached, Firmware, files
<1>5. CASE Restart \/ UNCHANGED webVars
  BY <1>5 DEF Restart, webVars, files
<1>6. QED
  BY <1>3, <1>4, <1>5 DEF Next, Credentials

\* With a request at a time, credentials brought once are never altered again, for
\* any number of threads, versions and pages, failed requests and restarts included.
THEOREM CredentialsAreFetchedOnce == Spec => FetchedOnce
<1>1. Init => FetchInv
  <2>1. Init => OneBusy /\ AbsentIsFetched
    BY DEF Init, OneBusy, Busy, AbsentIsFetched
  <2>2. QED
    BY <2>1, InitTypeOK DEF FetchInv
<1>2. FetchInv /\ [Next]_webVars => FetchInv'
  BY NextTypeOK, NextOneBusy, NextAbsent DEF FetchInv
<1>3. FetchInv /\ [Next]_webVars =>
          [\A v \in Versions : creds[v] = "whole" /\ ~ overlap' => creds'[v] = "whole"]_webVars
  BY NextFetchesOnce
<1>4. QED
  BY <1>1, <1>2, <1>3, PTL DEF Spec, FetchedOnce
===========================================================================
