---------------------------- MODULE PageInjection ----------------------------
(***************************************************************************)
(* Where addon content and the runtime land in a page: internal/addon/     *)
(* inject.go, internal/inject/dom.go, internal/rewriter/inject.go and the  *)
(* order in which RewriteResponse calls them.                              *)
(*                                                                         *)
(* A page is a sequence of tokens; by = 0 are the page's own, by = i those *)
(* of the i-th item, by = Runtime the runtime's.  An item whose content    *)
(* holds text that reads like a tag is three tokens, because the positions *)
(* are found by searching the bytes.                                       *)
(***************************************************************************)
EXTENDS Naturals, FiniteSets, Sequences, SequencesExt

CONSTANTS
  Selectors,   \* what items select: element names, "bad" for an invalid one
  Relations    \* where they go relative to it

Runtime == 99
Positions == <<"head_start", "head_end", "body_start", "body_end">>
Token(tag, by) == [tag |-> tag, by |-> by]

\* "<head[^>]*>" finds "<header>" as well.
HeadOpen == {"head", "header"}
FirstOf(page, tags) == SelectInSeq(page, LAMBDA t : t.tag \in tags)
Put(page, at, content) == SubSeq(page, 1, at) \o content \o SubSeq(page, at + 1, Len(page))

\* wrapResource: a script or style element.
Wrapped(item, by) ==
  IF item.text = "" THEN <<Token("script", by)>>
  ELSE <<Token("script", by), Token(item.text, by), Token("/script", by)>>

-----------------------------------------------------------------------------
(* Selectors, on the parsed and rendered page.                             *)

\* html.Parse and html.Render supply the structural tags that a page omits.
Normal(page) ==
  LET Own(tags) == SelectSeq(page, LAMBDA t : t.tag \in tags)
      T(tag) == Token(tag, 0)
  IN <<T("html"), T("head")>> \o Own({"title"}) \o <<T("/head"), T("body")>>
       \o Own({"header", "text", "/header"}) \o <<T("/body"), T("/html")>>

Closing == [html |-> "/html", head |-> "/head", body |-> "/body", header |-> "/header"]

\* applyItem and insertNode: next to or inside every element of the name.
ApplyItem(page, item, by) ==
  LET End(i) == CHOOSE j \in i .. Len(page) :
                  /\ page[j].tag = Closing[item.at]
                  /\ \A k \in i .. j - 1 : page[k].tag # Closing[item.at]
      hits == {i \in DOMAIN page : page[i] = Token(item.at, 0)}
      places == CASE item.relation = "before" -> {i - 1 : i \in hits}
                  [] item.relation = "prepend" -> hits
                  [] item.relation = "append" -> {End(i) - 1 : i \in hits}
                  [] item.relation = "after" -> {End(i) : i \in hits}
      Piece(i) == <<page[i]>> \o (IF i \in places THEN Wrapped(item, by) ELSE <<>>)
  IN (IF 0 \in places THEN Wrapped(item, by) ELSE <<>>)
       \o FlattenSeq([i \in DOMAIN page |-> Piece(i)])

-----------------------------------------------------------------------------
(* Positions.                                                              *)

\* The first tag a position is found by; NotFound if there is none.
NotFound == 0
PlaceOf(page, position) ==
  CASE position = "head_start" -> FirstOf(page, HeadOpen)
    [] position = "head_end" -> FirstOf(page, {"/head"})
    [] position = "body_start" -> FirstOf(page, {"body"})
    [] position = "body_end" -> FirstOf(page, {"/body"})

\* injectAtPosition: after the opening or before the closing tag, else at the
\* end of the document.
InjectAtPosition(page, content, position) ==
  LET at == PlaceOf(page, position)
  IN IF at = NotFound THEN page \o content
     ELSE Put(page, IF position \in {"head_end", "body_end"} THEN at - 1 ELSE at, content)

\* injectByPosition: the contents of a position together, in their order, the
\* positions from head_start to body_end.
InjectByPosition(page, items, order) ==
  LET Content(position) ==
        FlattenSeq([k \in DOMAIN order |->
          IF items[order[k]].position = position
            THEN Wrapped(items[order[k]], order[k]) ELSE <<>>])
  IN FoldLeft(LAMBDA page1, position :
                IF Content(position) = <<>> THEN page1
                ELSE InjectAtPosition(page1, Content(position), position),
              page, Positions)

\* InjectAddons: selectors first; if one is invalid all of them go to body_end.
InjectAddons(page, items) ==
  LET Where(Test(_)) == SelectSeq([i \in DOMAIN items |-> i], Test)
      selecting == Where(LAMBDA i : items[i].at # "")
      positioned == Where(LAMBDA i : items[i].at = "")
      failed == \E i \in DOMAIN items : items[i].at = "bad"
      demoted == [i \in DOMAIN items |->
                    IF items[i].at = "" THEN items[i]
                    ELSE [items[i] EXCEPT !.position = "body_end"]]
      parsed == FoldLeft(LAMBDA page1, i : ApplyItem(page1, items[i], i),
                         Normal(page), selecting)
  IN IF failed THEN InjectByPosition(page, demoted, positioned \o selecting)
     ELSE InjectByPosition(IF selecting = <<>> THEN page ELSE parsed, items, positioned)

\* Mutant: before </head> is as good as after <head>.
InjectRuntimeAtHeadEnd(page) ==
  LET runtime == <<Token("script", Runtime)>>
      At(tags) == FirstOf(page, tags)
  IN IF At({"/head"}) # 0 THEN Put(page, At({"/head"}) - 1, runtime)
     ELSE IF At(HeadOpen) # 0 THEN Put(page, At(HeadOpen), runtime)
     ELSE runtime \o page

\* InjectRuntime.
InjectRuntime(page) ==
  LET runtime == <<Token("script", Runtime)>>
      At(tags) == FirstOf(page, tags)
  IN IF At(HeadOpen) # 0 THEN Put(page, At(HeadOpen), runtime)
     ELSE IF At({"/head"}) # 0 THEN Put(page, At({"/head"}) - 1, runtime)
     ELSE IF At({"html"}) # 0 THEN Put(page, At({"html"}), runtime)
     ELSE IF At({"body"}) # 0 THEN Put(page, At({"body"}) - 1, runtime)
     ELSE runtime \o page

\* looksLikeHTML: some tag it knows.
LooksLikeHTML(page) == FirstOf(page, {"html", "head", "title", "body", "header"}) # 0

\* RewriteResponse: addons first, then the runtime.
RewrittenPage(page, items) ==
  IF LooksLikeHTML(page) THEN InjectRuntime(InjectAddons(page, items)) ELSE page

-----------------------------------------------------------------------------
\* Pages in document order; HTML lets authors omit every one of these tags.
HtmlPages ==
  LET all == <<"html", "head", "title", "/head", "body", "header", "/header", "text",
               "header", "/header", "/body">>
  IN {SelectSeq([i \in DOMAIN all |-> Token(all[i], 0)], LAMBDA t : t.tag \notin omitted) :
        omitted \in {o \in SUBSET {"html", "head", "/head", "body", "header", "/header", "/body"} :
                       "header" \in o <=> "/header" \in o}}

Items ==
  [position : ToSet(Positions), at : {""}, relation : {""}, text : {"", "header", "/body"}]
    \cup [position : {""}, at : Selectors, relation : Relations, text : {""}]

PageProbes == [fn : {"page"}, page : HtmlPages, items : BoundedSeq(Items, 2)]

Landed(p) == RewrittenPage(p.page, p.items)
Indices(out, by) == {i \in DOMAIN out : out[i].by = by}
OwnTag(p, tag) == \E i \in DOMAIN p.page : p.page[i].tag = tag
Selecting(p) == \E i \in DOMAIN p.items : p.items[i].at # ""
Failed(p) == \E i \in DOMAIN p.items : p.items[i].at = "bad"
Parsed(p) == Selecting(p) /\ ~Failed(p)

\* Nothing goes before the <head> that the runtime looks for, and there is one,
\* or nothing that could be taken for one or inserted before </head>.
Ordinary(p) ==
  /\ \A i \in DOMAIN p.items :
       /\ <<p.items[i].at, p.items[i].relation>> \notin
            {<<"html", "before">>, <<"html", "prepend">>, <<"head", "before">>}
       /\ p.items[i].text = "header" => OwnTag(p, "head") \/ Parsed(p)
  /\ \/ OwnTag(p, "head")
     \/ Parsed(p)
     \/ ~OwnTag(p, "/head") /\ ~OwnTag(p, "header")

AtEnd(p, i) == p.items[i].position = "body_end" \/ (Failed(p) /\ p.items[i].at # "")

\* The tag of the page an item belongs to, and on which side of it.
Spot(p, i) ==
  LET item == p.items[i]
  IN IF AtEnd(p, i) THEN <<"/body", "ahead">>
     ELSE CASE item.position = "head_start" -> <<"head", "behind">>
            [] item.position = "head_end" -> <<"/head", "ahead">>
            [] item.position = "body_start" -> <<"body", "behind">>
            [] item.relation = "before" -> <<item.at, "ahead">>
            [] item.relation = "prepend" -> <<item.at, "behind">>
            [] item.relation = "append" -> <<Closing[item.at], "ahead">>
            [] item.relation = "after" -> <<Closing[item.at], "behind">>

\* Nothing of the page's own is between a token and its tag.
Beside(out, tag, side, k) ==
  /\ IF side = "behind" THEN tag < k ELSE k < tag
  /\ \A m \in (tag + 1 .. k - 1) \cup (k + 1 .. tag - 1) : out[m].by # 0

\* An item stands at its tag: at the one a position means, or, if the page has none, at
\* the end; and once at every element that it selects.
InPlace(p, i) ==
  LET out == Landed(p)
      mine == Indices(out, i)
      spot == Spot(p, i)
      tags == {k \in DOMAIN out : out[k] = Token(spot[1], 0)}
  IN IF p.items[i].at # "" /\ ~Failed(p)
       THEN /\ Cardinality(mine) = Cardinality(tags)
            /\ \A k \in mine : \E tag \in tags : Beside(out, tag, spot[2], k)
            /\ \A tag \in tags : \E k \in mine : Beside(out, tag, spot[2], k)
       ELSE /\ \A k \in mine, tag \in tags : Beside(out, tag, spot[2], k)
            /\ tags = {} => \A k \in mine : \A m \in k + 1 .. Len(out) : out[m].by # 0

\* The page itself survives; every item lands once, where its position says (unless
\* "<header>" is taken for a missing "<head>", or another item's own text for "</body>"),
\* or at each of its selector's hits; items of one position keep their
\* order; the runtime precedes every addon (rewriter.go: "所有 addon JS 位于运行时之后")
\* on ordinary pages; and no item is torn apart, unless its own text reads like a tag a
\* later injection looks for.
LandsWell(p) ==
  LET out == Landed(p)
      items == p.items
      Misled(i) ==
        \/ Spot(p, i)[1] = "head" /\ items[i].at = "" /\ ~OwnTag(p, "head") /\ ~Parsed(p)
             /\ OwnTag(p, "header")
        \/ AtEnd(p, i) /\ \E j \in DOMAIN items : items[j].text = "/body" /\ ~AtEnd(p, j)
  IN LooksLikeHTML(p.page) =>
     /\ SelectSeq(out, LAMBDA t : t.by = 0) = (IF Parsed(p) THEN Normal(p.page) ELSE p.page)
     /\ Cardinality(Indices(out, Runtime)) = 1
     /\ \A i \in DOMAIN items :
          LET mine == Indices(out, i)
          IN /\ items[i].at = "" \/ Failed(p)
                  => Cardinality(mine) = Len(Wrapped(items[i], i))
             /\ Misled(i) \/ InPlace(p, i)
             /\ Ordinary(p) => \A k \in mine : \A r \in Indices(out, Runtime) : r < k
             /\ \A j \in i + 1 .. Len(items) :
                  items[i].at = "" /\ items[j].at = "" /\ items[i].position = items[j].position
                    => \A k \in mine : \A l \in Indices(out, j) : k < l
             /\ \/ items[i].text = "header" /\ ~Ordinary(p)
                \/ /\ items[i].text = "/body" /\ ~AtEnd(p, i)
                   /\ \E j \in DOMAIN items : AtEnd(p, j)
                \/ items[i].at = "" =>
                     \A k \in mine : k + 1 \in mine \/ (\A l \in mine : l <= k)
=============================================================================
