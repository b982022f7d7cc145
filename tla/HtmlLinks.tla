------------------------------ MODULE HtmlLinks ------------------------------
(***************************************************************************)
(* internal/rewriter/html.go: which attributes and texts of a page get     *)
(* proxy URLs.  The tokenizer yields decoded attributes, but the bytes of  *)
(* the tag are edited by searching for name="value", so that the result    *)
(* depends on how the tag is written.                                      *)
(*                                                                         *)
(* A written attribute has a name, a link, whether that was replaced (via) *)
(* and a form: "plain" (name="value"), "entity" (the same with &amp;),     *)
(* "loose" (upper case, or blanks around "="), "bare" (no quotes).         *)
(***************************************************************************)
EXTENDS Naturals, Sequences, SequencesExt

CONSTANTS
  Links,      \* links BuildProxyUrl rewrites
  AmpLinks,   \* those of them that contain an "&"
  Anchors,    \* values it leaves alone: fragments, unknown schemes
  HtmlTags,   \* the tags probed
  AttrNames,  \* the attribute names probed
  MaxAttrs    \* the number of attributes of a tag probed

\* data-* attributes of pages, with the name a search for the suffix finds.
DataAttr == [n \in {"data-src", "data-href"} |-> IF n = "data-src" THEN "src" ELSE "href"]

UrlAttrNames == {"src", "href", "action", "poster", "srcset", "cite", "longdesc",
                 "profile", "usemap", "codebase", "archive", "background"}

TagSpecificURLAttrs == [
  object |-> {"data"}, applet |-> {"data"}, embed |-> {"data"},
  source |-> {"src", "srcset"}, img |-> {"src", "srcset"}, track |-> {"src"},
  input |-> {"src"}, iframe |-> {"src"}, frame |-> {"src"}, script |-> {"src"},
  audio |-> {"src"}, video |-> {"src", "poster"}, link |-> {"href"}, a |-> {"href"},
  area |-> {"href"}, base |-> {"href"}, form |-> {"action"}, body |-> {"background"},
  table |-> {"background"}, td |-> {"background"}, th |-> {"background"},
  tr |-> {"background"}, blockquote |-> {"cite"}, q |-> {"cite"}, ins |-> {"cite"},
  del |-> {"cite"}]

\* isURLAttr.
IsURLAttr(tag, name) ==
  /\ name \notin DOMAIN DataAttr
  /\ IF tag \in DOMAIN TagSpecificURLAttrs
       THEN name \in TagSpecificURLAttrs[tag] ELSE name \in UrlAttrNames

IsMetaRefresh(attrs) ==
  \E i \in DOMAIN attrs : attrs[i].name = "http-equiv" /\ attrs[i].link = "refresh"

\* The attributes buildAttrReplacements looks at; srcset and style on any tag.
HoldsLink(tag, attrs, name) ==
  \/ IsURLAttr(tag, name)
  \/ name \in {"srcset", "style"}
  \/ name = "content" /\ IsMetaRefresh(attrs)

\* needsRewrite: the tags looked at.  A srcset alone is not a reason.
NeedsRewrite(tag, attrs) ==
  \/ IsMetaRefresh(attrs)
  \/ \E i \in DOMAIN attrs :
       \/ IsURLAttr(tag, attrs[i].name)
       \/ attrs[i].name = "style" /\ attrs[i].link \in Links

\* The attributes whose values are replaced.
BuildAttrReplacements(tag, attrs) ==
  {i \in DOMAIN attrs : HoldsLink(tag, attrs, attrs[i].name) /\ attrs[i].link \in Links}

\* The search does not ask for the beginning of the name.
EndsWith(name, suffix) ==
  \/ name = suffix
  \/ name \in DOMAIN DataAttr /\ DataAttr[name] = suffix

Replaced(attr, rep) == [attr EXCEPT !.link = rep.link, !.via = TRUE,
                                    !.form = IF @ = "loose" THEN @ ELSE "plain"]

\* Mutant: every value of the name is replaced at once.
ApplyToEveryValue(raw, rep) ==
  [i \in DOMAIN raw |-> IF EndsWith(raw[i].name, rep.name) /\ raw[i].form # "bare"
                          THEN Replaced(raw[i], rep) ELSE raw[i]]

\* The first place that reads name="value", in plain bytes or with entities.
FirstReading(raw, rep, form) ==
  SelectInSeq(raw, LAMBDA a : /\ EndsWith(a.name, rep.name) /\ a.form = form
                              /\ a.link = rep.link /\ ~a.via)

ReplacedAt(raw, i, rep) ==
  IF i = 0 THEN raw ELSE ReplaceAt(raw, i, Replaced(raw[i], rep))

\* The regular expression of the last resort: all quoted values of such names,
\* if name= occurs at all.
ReplaceAttrValueInRaw(raw, rep) ==
  LET occurs == \E i \in DOMAIN raw :
                  EndsWith(raw[i].name, rep.name) /\ raw[i].form # "loose"
  IN [i \in DOMAIN raw |->
        IF occurs /\ EndsWith(raw[i].name, rep.name) /\ raw[i].form # "bare"
          THEN Replaced(raw[i], rep) ELSE raw[i]]

\* One replacement: the first place that reads name="value"; else the first
\* that reads so with entities, and then the last resort.
ApplyAttrReplacement(raw, rep) ==
  LET exact == FirstReading(raw, rep, "plain")
      entity == FirstReading(raw, rep, "entity")
  IN IF exact # 0 THEN ReplacedAt(raw, exact, rep)
     ELSE ReplaceAttrValueInRaw(ReplacedAt(raw, entity, rep), rep)

\* applyAttrReplacements: one after the other.
ApplyAttrReplacements(attrs, replacements) ==
  LET after[n \in 0 .. Len(attrs)] ==
        IF n = 0 THEN attrs
        ELSE IF n \in replacements THEN ApplyAttrReplacement(after[n - 1], attrs[n])
        ELSE after[n - 1]
  IN after[Len(attrs)]

\* The start tag, if needsRewrite lets it through.
RewrittenTag(tag, attrs) ==
  IF ~NeedsRewrite(tag, attrs) THEN attrs
  ELSE ApplyAttrReplacements(attrs, BuildAttrReplacements(tag, attrs))

\* RewriteHTMLUrls on an element: its start tag, its text, its end tag.  Only
\* the text of a style element is looked through for url().
RewrittenElement(e) ==
  [e EXCEPT !.attrs = RewrittenTag(e.tag, e.attrs),
            !.textVia = e.tag = "style"]

-----------------------------------------------------------------------------
Attrs ==
  {a \in [name : AttrNames, link : Links \cup Anchors \cup {"refresh"},
          form : {"plain", "entity", "loose", "bare"}, via : {FALSE}] :
     /\ a.form = "entity" => a.link \in AmpLinks
     /\ a.name = "http-equiv" <=> a.link = "refresh"}

\* An element whose attributes have different names.
HtmlProbes ==
  [fn : {"html"}, tag : HtmlTags, textVia : {FALSE},
   attrs : {s \in BoundedSeq(Attrs, MaxAttrs) :
              \A i, j \in DOMAIN s : s[i].name = s[j].name => i = j}]

\* In a tag without data-* attributes, every link in quotes becomes a proxy URL
\* of its own link and nothing else changes, except that loosely written ones
\* are missed.  A data-* attribute (docs/arch.md: never rewritten) keeps its
\* value, unless it shares it with the attribute of the shorter name or that
\* one is not found in its plain form.  Links are rewritten in the text of
\* style elements only.
LinksRewritten(e) ==
  LET out == RewrittenElement(e)
      written == e.attrs
      Due(a) == /\ NeedsRewrite(e.tag, written)
                /\ HoldsLink(e.tag, written, a.name)
                /\ a.link \in Links
  IN /\ out.textVia = (e.tag = "style")
     /\ \A i \in DOMAIN written :
          IF written[i].name \in DOMAIN DataAttr
          THEN out.attrs[i] # written[i] =>
                 \E j \in DOMAIN written :
                   /\ written[j].name = DataAttr[written[i].name]
                   /\ Due(written[j])
                   /\ written[j].form # "plain" \/ written[j].link = written[i].link
          ELSE /\ out.attrs[i].link = written[i].link
               /\ out.attrs[i].via => Due(written[i])
               /\ (\A j \in DOMAIN written : written[j].name \notin DOMAIN DataAttr)
                    => (out.attrs[i].via
                          <=> Due(written[i]) /\ written[i].form \in {"plain", "entity"})
=============================================================================
