----------------------------- MODULE PublicServer -----------------------------
(***************************************************************************)
(* The public HTTP server: which handler a request reaches, the calls of   *)
(* the API worker and of the backend that the handler makes, and what the  *)
(* wrappers jsonHandler and htmlTemplateHandler answer.  The process       *)
(* around it is in module Process.                                         *)
(***************************************************************************)
EXTENDS Integers, Sequences, SequencesExt, FiniteSets

CONSTANT MaxTotal    \* pages of a list

VARIABLES
    mux,         \* groups of handlers that are registered
    listening,   \* does the server accept requests
    req          \* the request that is handled

serverVars == <<mux, listening, req>>

NoRequest == [at |-> "none"]
-----------------------------------------------------------------------------
(***************************************************************************)
(* A handler checks its parameters, makes its calls one after the other    *)
(* and returns.  bad: what it returns when the parameters are missing or   *)
(* cannot be parsed.  Either all calls must succeed ("all"), or the first  *)
(* that succeeds decides ("any").  When they fail the handler returns      *)
(* their error, or a public error of its own, or a page that shows it.     *)
(***************************************************************************)
Handler(group, bad, mode, calls, ok, fail) ==
    [group |-> group, bad |-> bad, mode |-> mode, calls |-> calls, ok |-> ok, fail |-> fail]

None == {}
Required == {"public"}
Page(group, bad, calls) == Handler(group, bad, "all", calls, "page", "error")
Json(bad, calls) == Handler("api", bad, "all", calls, "data", "error")

explorerTx == Page("explorer", None, <<"GetTransaction">>)
explorerSpendingTx == Handler("explorer", Required, "any", <<"GetSpendingTxid">>, "redirect", "public")
explorerAddress == Page("explorer", Required, <<"GetAddress">>)
explorerXpub == Page("explorer", Required, <<"GetXpubAddress">>)
explorerBlocks == Page("explorer", None, <<"GetBlocks">>)
explorerBlock == Page("explorer", None, <<"GetBlock">>)
explorerIndex == Page("basic", None, <<"GetSystemInfo", "GetBlocks">>)
explorerApiInfo == Page("pages", None, <<>>)
explorerMasternodes == Page("pages", None, <<"GetSystemInfo", "GetMasternodesInfo">>)
explorerPeers == Page("pages", None, <<"GetSystemInfo", "GetPeersInfo">>)
explorerTop == Page("pages", None, <<"GetSystemInfo", "GetTopInfo", "TopSum">>)
explorerStatus == Page("pages", None, <<"GetSystemInfo">>)
explorerSearch ==
    Handler("explorer", Required, "any", <<"GetXpubAddress", "GetBlock", "GetTransaction", "GetAddress">>,
            "redirect", "public")
\* Nothing is sent unless the form is posted, can be parsed and is not empty.
explorerSendTx == Handler("explorer", {"page", "error"}, "all", <<"SendRawTransaction">>, "page", "shown")
explorerMempool == Page("explorer", None, <<"GetMempool">>)
explorerCharts == Page("explorer", None, <<"ReadFile">>)

apiIndex == Handler("basic", None, "all", <<"GetSystemInfo">>, "data", "error")
apiBlockIndex == Json(None, <<"db.GetBlockHash">>)
apiTx == Json(Required, <<"GetTransaction">>)
apiTxSpecific == Json(Required, <<"GetTransactionSpecific">>)
apiAddress == Json(Required, <<"GetAddress">>)
apiXpub == Json(Required, <<"GetXpubAddress">>)
apiUtxo == Handler("api", Required, "any", <<"GetXpubUtxo", "GetAddressUtxo">>, "data", "error")
apiBlock == Json(None, <<"GetBlock">>)
apiSendTx == Handler("api", Required, "all", <<"SendRawTransaction">>, "data", "public")
apiEstimateFee == Handler("api", Required, "any", <<"EstimateSmartFee", "EstimateFee">>, "data", "error")
apiFindzcserial == Json(None, <<"Findzcserial">>)

\* The path that a handler is registered for.
Pages == [tx |-> explorerTx, spending |-> explorerSpendingTx, address |-> explorerAddress,
          xpub |-> explorerXpub, blocks |-> explorerBlocks, block |-> explorerBlock,
          index |-> explorerIndex, apiinfo |-> explorerApiInfo, masternodes |-> explorerMasternodes,
          peers |-> explorerPeers, top |-> explorerTop, status |-> explorerStatus,
          search |-> explorerSearch, sendtx |-> explorerSendTx, mempool |-> explorerMempool,
          charts |-> explorerCharts]
Api == [api |-> apiIndex, apiBlockIndex |-> apiBlockIndex, apiTx |-> apiTx,
        apiTxSpecific |-> apiTxSpecific, apiAddress |-> apiAddress, apiXpub |-> apiXpub,
        apiUtxo |-> apiUtxo, apiBlock |-> apiBlock, apiSendtx |-> apiSendTx,
        apiEstimatefee |-> apiEstimateFee, apiFindzcserial |-> apiFindzcserial]
Path == DOMAIN Pages \cup DOMAIN Api
HandlerOf(p) == IF p \in DOMAIN Pages THEN Pages[p] ELSE Api[p]

\* Mutant of NewPublicServer: everything is enabled from the start.
NewPublicServerFull == {"basic", "pages", "explorer", "api", "sockets"}

\* The handlers that NewPublicServer registers, and the others in the order of
\* ConnectFullPublicInterface; an external explorer replaces the internal one.
NewPublicServer == {"basic"}
Groups(internalExplorer) ==
    <<"pages", IF internalExplorer THEN "explorer" ELSE "redirects", "api", "sockets">>

\* What is not registered goes to the default handlers.
Route(p) == IF HandlerOf(p).group \in mux THEN p
            ELSE IF p \in DOMAIN Pages THEN "index" ELSE "api"
-----------------------------------------------------------------------------
(* getPagingRange: the pages of a list that are offered, 0 for a gap. *)

Ascending(n) == [i \in 1 .. n |-> i]
If(c, s) == IF c THEN s ELSE <<>>

\* Three pages around the current one that are neither the first nor the last.
Middle(page, total, pp, np) ==
    CASE pp = 1 -> IF page = 1 THEN <<np, np + 1, np + 2>> ELSE <<page, np, np + 1>>
      [] pp # 1 /\ np = total -> IF page = total THEN <<pp - 2, pp - 1, pp>> ELSE <<pp - 1, pp, page>>
      [] OTHER -> <<pp, page, np>>

\* A total of -1 is unknown: only the previous and the next page are offered.
GetPagingRange(page, total) ==
    LET pp == IF page - 1 < 1 THEN 1 ELSE page - 1
        np == IF total > 0 /\ page + 1 > total THEN total ELSE page + 1
    IN  IF total \in 0 .. 1 THEN [range |-> <<>>, prev |-> 0, next |-> 0]
        ELSE [prev |-> pp, next |-> np,
              range |-> CASE total < 0 -> <<>>
                          [] total \in 2 .. 5 -> Ascending(total)
                          [] OTHER -> <<1>> \o If(page > 3, <<0>>) \o Middle(page, total, pp, np)
                                      \o If(page <= total - 3, <<0>>) \o <<total>>]

Paged == {"address", "xpub", "blocks", "block", "mempool"}
-----------------------------------------------------------------------------
\* The server accepts a request; txRedirect and addressRedirect answer at once.
Arrive(p) ==
    /\ listening /\ req = NoRequest
    /\ LET r == Route(p)
       IN  req' = IF p \in {"tx", "address"} /\ "redirects" \in mux
                  THEN [at |-> "done", status |-> 302, bodies |-> 1]
                  ELSE [at |-> "run", path |-> r, left |-> HandlerOf(r).calls]
    /\ UNCHANGED <<mux, listening>>

ReturnsList(out, page, total) ==
    req' = [at |-> "returned", path |-> req.path, out |-> out, page |-> page, total |-> total,
            paging |-> GetPagingRange(page, total)]
Returns(out) == ReturnsList(out, 1, 0)

\* A parameter is missing or cannot be parsed; nothing was called yet.
BadParams ==
    /\ req.at = "run"
    /\ LET h == HandlerOf(req.path) IN req.left = h.calls /\ \E o \in h.bad : Returns(o)
    /\ UNCHANGED <<mux, listening>>

\* A call returns, with an APIError (public or not) or another error, or panics.
\* TopSum, no call, adds up four times 25 entries of the list unless it is empty.
TopSum(n) == IF n = 0 \/ n >= 100 THEN "ok" ELSE "panic"
Outcomes(c) ==
    IF c = "TopSum" THEN {TopSum(n) : n \in {0, 99, 100}} ELSE {"ok", "public", "private", "error", "panic"}

CallWorker ==
    /\ req.at = "run" /\ req.left # <<>>
    /\ LET h == HandlerOf(req.path)
           last == Len(req.left) = 1
           next == [req EXCEPT !.left = Tail(@)]
       IN  \E o \in Outcomes(Head(req.left)) :
             CASE o = "panic" -> req' = [at |-> "panicked", path |-> req.path]
               [] o = "ok" -> IF h.mode = "all" THEN req' = next ELSE Returns(h.ok)
               [] OTHER -> IF h.mode = "any" /\ ~last THEN req' = next
                           ELSE Returns(IF h.fail = "error" THEN o ELSE h.fail)
    /\ UNCHANGED <<mux, listening>>

\* All calls succeeded; a list gets its paging.
Complete ==
    /\ req.at = "run" /\ req.left = <<>>
    /\ LET h == HandlerOf(req.path)
       IN  IF req.path \in Paged
           THEN \E total \in -1 .. MaxTotal : \E page \in 1 .. (IF total < 1 THEN 2 ELSE total) :
                  ReturnsList(h.ok, page, total)
           ELSE Returns(h.ok)
    /\ UNCHANGED <<mux, listening>>

Write(status, bodies) == req' = [at |-> "done", status |-> status, bodies |-> bodies]

\* Mutant of JsonHandler: without recover.
JsonHandlerNoRecover ==
    /\ req.at = "returned" /\ req.path \in DOMAIN Api
    /\ Write(CASE req.out = "data" -> 200 [] req.out = "public" -> 400 [] OTHER -> 500, 1)
    /\ UNCHANGED <<mux, listening>>

\* jsonHandler: only a public error is told from the others.
JsonHandler ==
    /\ req.at \in {"returned", "panicked"} /\ req.path \in DOMAIN Api
    /\ Write(IF req.at = "panicked" THEN 500
             ELSE CASE req.out = "data" -> 200 [] req.out = "public" -> 400 [] OTHER -> 500, 1)
    /\ UNCHANGED <<mux, listening>>

\* htmlTemplateHandler: a public error is a page; the others, and a panic, are the
\* page of an internal error.  A handler that redirected has answered by itself and
\* returns no data, but the path is then stored in them: this panics, and the page
\* of the internal error is written after the redirect.
HtmlTemplateHandler ==
    /\ req.at \in {"returned", "panicked"} /\ req.path \in DOMAIN Pages
    /\ CASE req.at = "panicked" -> Write(500, 1)
         [] req.at = "returned" /\ req.out = "redirect" -> Write(302, 2)
         [] req.at = "returned" /\ req.out \in {"page", "shown", "public"} -> Write(200, 1)
         [] OTHER -> Write(500, 1)
    /\ UNCHANGED <<mux, listening>>

Sent ==
    /\ req.at = "done" /\ req' = NoRequest
    /\ UNCHANGED <<mux, listening>>

Handling == BadParams \/ CallWorker \/ Complete \/ JsonHandler \/ HtmlTemplateHandler
ServerNext == (\E p \in Path : Arrive(p)) \/ Handling \/ Sent
-----------------------------------------------------------------------------
(* Properties of a request. *)

\* The range of pages: from the first to the last page, with the current one,
\* without a page twice, and with a gap exactly where pages are left out; the
\* previous and the next page are neighbours inside the list.
PagingRight ==
    req.at = "returned" /\ req.path \in Paged /\ req.total >= 2 =>
        LET r == req.paging.range
            pages == SelectSeq(r, LAMBDA x : x # 0)
        IN  /\ req.page \in ToSet(r) /\ Head(r) = 1 /\ Last(r) = req.total
            /\ \A i \in 1 .. Len(pages) - 1 : pages[i] < pages[i + 1]
            /\ \A i \in 1 .. Len(r) - 1 : r[i] # 0 /\ r[i + 1] # 0 => r[i + 1] = r[i] + 1
            /\ \A i \in 2 .. Len(r) - 1 : r[i] = 0 => r[i + 1] > r[i - 1] + 1
            /\ {req.paging.prev, req.paging.next} \subseteq {req.page - 1, req.page, req.page + 1} \cap (1 .. req.total)

\* public.go says of htmlTemplateHandler "noTpl means the handler completely handled
\* the request": nothing is written after the handler's own answer.
HandledCompletely == req.at = "done" => req.bodies = 1
=============================================================================
