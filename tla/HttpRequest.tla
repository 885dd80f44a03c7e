----------------------------- MODULE HttpRequest -----------------------------
(***************************************************************************)
(* The HTTP request parser (network/httprequest.cpp) as operators on the   *)
(* text received so far.  The text is a sequence of cells <<kind, value>>: *)
(*   get, post     the method at the start of request number value         *)
(*   url           the rest of the request line                            *)
(*   length        the header Content-Length: value                        *)
(*   form, upgrade the header with the type of a form, or that asks for a  *)
(*                 websocket                                               *)
(*   blank         the blank line after the headers                        *)
(*   text, eq, amp the body of a form                                      *)
(*   crlf, cap     a stray newline, or a stray letter G or P               *)
(*   nul           a byte that get_post_urlencoded wrote                   *)
(***************************************************************************)
EXTENDS Integers, Sequences, FiniteSetsExt

Method == {"get", "post"}
HeadKinds == Method \cup {"url", "length", "form", "upgrade"}

\* The positions of some kinds of cell in the text r.
At(r, kinds) == {i \in DOMAIN r : r[i][1] \in kinds}

-----------------------------------------------------------------------------
\* The headers end at the blank line, or at a newline at the very beginning.
HeadEnd(r) == IF r[1][1] = "crlf" THEN 1 ELSE Min(At(r, {"blank"}))

\* Value of Content-Length, which cannot be the first line; zero without it.
ContentLength(r) ==
    LET lines == {i \in At(r, {"length"}) : i > 1 /\ i < HeadEnd(r)}
    IN IF lines = {} THEN 0 ELSE r[Min(lines)][2]

HasHeader(r, kind) == \E i \in At(r, {kind}) : i > 1 /\ i < HeadEnd(r)

\* The text after the values of the form were terminated in place.
Terminate(r, items) == [i \in DOMAIN r |->
    IF \E it \in items : it.nul = i THEN <<"nul", 0>> ELSE r[i]]

\* get_post_urlencoded of the body r[first..end]: the items found from ptr on,
\* with the place of each value and of the byte written behind it, which for the
\* last is the one behind the body.  It never returns when the rest of a body
\* has no equal sign.  Keys and values are one cell, decoded or not.
Form(r, first, end) ==
    LET next(ptr, kind) == LET found == {i \in ptr..end : r[i][1] = kind}
                           IN IF found = {} THEN end + 1 ELSE Min(found)
        item[ptr \in first..(end + 2)] ==
            LET eq == next(ptr, "eq")
                amp == next(eq + 1, "amp")
            IN IF ptr > end THEN [items |-> {}, loops |-> FALSE]
               ELSE IF eq > end THEN [items |-> {}, loops |-> TRUE]
               ELSE IF eq = end
                    THEN [items |-> {[key |-> SubSeq(r, ptr, eq - 1), at |-> eq, nul |-> eq]},
                          loops |-> FALSE]
               ELSE [items |-> {[key |-> SubSeq(r, ptr, eq - 1), at |-> eq + 1, nul |-> amp]}
                               \cup item[amp + 1].items,
                     loops |-> item[amp + 1].loops]
    IN item[first]

\* postValue: the C string at a place of the text.
CString(r, at) ==
    LET ends == {i \in at..Len(r) : r[i][1] = "nul"}
    IN SubSeq(r, at, IF ends = {} THEN Len(r) ELSE Min(ends) - 1)

\* The values of a form by key, as the application reads them from the text.
PostData(r, items) == {<<it.key, CString(Terminate(r, items), it.at)>> : it \in items}

-----------------------------------------------------------------------------
\* Text without a blank line: what parseRequest makes of it.  It drops what
\* precedes a method, but never returns when the text begins with one, or when
\* a G or P has nothing behind it.
Scan(r) ==
    LET methods == At(r, Method)
        method == Min(methods)
        caps == {i \in At(r, {"cap"}) : methods = {} \/ i < method}
        start == IF caps = {} THEN 1 ELSE Max(caps) + 1
    IN IF methods # {}
       THEN [loops |-> method \in {start, Len(r)}, rqst |-> SubSeq(r, method, Len(r))]
       ELSE [loops |-> Len(r) \in caps, rqst |-> <<>>]

\* Mutant of Complete: the last byte of a body is waited for once more.
CompleteMore(r) == /\ At(r, {"blank"}) # {}
                   /\ Len(r) - HeadEnd(r) > ContentLength(r)
\* isComplete: the head and as much body as it announces.
Complete(r) == /\ At(r, {"blank"}) # {}
               /\ Len(r) - HeadEnd(r) >= ContentLength(r)

\* size(): the head and the body of a complete request.
Size(r) == HeadEnd(r) + ContentLength(r)

\* parseRequest(rqst, false)
ParseRequest(r) ==
    [complete |-> Complete(r),
     loops    |-> At(r, {"blank"}) = {} /\ Scan(r).loops,
     rqst     |-> IF At(r, {"blank"}) = {} THEN Scan(r).rqst ELSE r]

\* parseRequest(rqst, true) of a complete request: get_post of a form.
ParsePost(r) ==
    LET f == Form(r, HeadEnd(r) + 1, Size(r))
    IN IF r[1][1] = "post" /\ HasHeader(r, "form")
       THEN [loops |-> f.loops, data |-> PostData(r, f.items), rqst |-> Terminate(r, f.items)]
       ELSE [loops |-> FALSE, data |-> {}, rqst |-> r]
=============================================================================
