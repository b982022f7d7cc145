---------------------------- MODULE TenantAddons -----------------------------
(***************************************************************************)
(* What addons put into the pages of a tenant: parameters in three layers  *)
(* (internal/addon/params.go, addon.go), the tenant's context              *)
(* (tenantInjectContext in server.go), matching and rendering (matcher.go),*)
(* the renderings each rule keeps for the tenants, and the hot reload that *)
(* makes new rules at any moment.                                          *)
(*                                                                         *)
(* All requests of an instance ask for one page, and every rule listed     *)
(* matches it.  A resource is its text and the parameters it shows.        *)
(***************************************************************************)
EXTENDS Naturals, Sequences, FiniteSets, SequencesExt

CONSTANTS
  Requests,
  Lists,      \* addon lists: sequences of [id, defs, rules]
  Global,     \* addons.params of the configuration: addon ids to overrides
  Tenants,    \* registered tenants: [enabled, params], as in the configuration
  Visitor,    \* stands for everybody who is no registered tenant
  MaxReloads, \* bound on reloads, for model checking
  Rejected, Nothing

Ids == DOMAIN Tenants

ASSUME IdsAssumption == Visitor \notin Ids
ASSUME ReloadsAssumption == MaxReloads \in Nat
ASSUME ListsAssumption ==
  \A entries \in Lists :
    /\ entries \in Seq(Range(entries))
    /\ \A a \in Range(entries) : a.rules \in Seq(Range(a.rules))

VARIABLES
  gen,       \* the lists installed so far; every one has rules of its own
  kept,      \* tenantCache of each rule
  req,       \* the requests
  straddled  \* history: lists and tenants, rendered with the context of an older list

pageVars == <<gen, kept, req, straddled>>

-----------------------------------------------------------------------------
(* Parameters.  A value is its Go type and what it is.                     *)

Value(go, is) == [go |-> go, is |-> is]

ZeroByType == [string |-> Value("string", ""), int |-> Value("number", 0),
               bool |-> Value("bool", FALSE), json |-> Value("nil", Nothing)]

\* normalizeValue: numbers and booleans may stand for strings, whole floats for integers.
NormalizeValue(type, v) ==
  CASE type = "json" -> v
    [] type = "string" /\ v.go \in {"string", "number", "fraction", "bool"} -> Value("string", v.is)
    [] type = "int" /\ v.go = "number" -> v
    [] type = "bool" /\ v.go = "bool" -> v
    [] OTHER -> Rejected

\* ResolveParams: a default of the wrong type counts even where it is overridden.
ResolveParams(defs, values) ==
  LET default(d) == IF d.default = Nothing THEN ZeroByType[d.type]
                      ELSE NormalizeValue(d.type, d.default)
      value(d) == IF d.name \in DOMAIN values THEN NormalizeValue(d.type, values[d.name])
                    ELSE default(d)
  IN IF \E d \in Range(defs) : Rejected \in {default(d), value(d)}
       THEN Rejected
       ELSE [n \in {d.name : d \in Range(defs)} |-> value(CHOOSE d \in Range(defs) : d.name = n)]

Overrides(of, id) == IF id \in DOMAIN of THEN of[id] ELSE <<>>

\* LoadedAddon.Params; an addon whose parameters do not resolve is not loaded.
Params(a) == ResolveParams(a.defs, Overrides(Global, a.id))

\* ParamsFor: the tenant's overrides before those of the configuration.
Merged(overrides, others) ==
  [n \in DOMAIN overrides \cup DOMAIN others |->
     IF n \in DOMAIN overrides THEN overrides[n] ELSE others[n]]

ParamsFor(a, overrides) == ResolveParams(a.defs, Merged(overrides, Overrides(Global, a.id)))

OwnParams(a, t) == ParamsFor(a, Overrides(Tenants[t].params, a.id))

ASSUME NothingAssumption ==
  \A entries \in Lists : \A a \in Range(entries), t \in Ids : OwnParams(a, t) # Nothing

\* The elements of a sequence that lie in S, in their order.
Only(s, S) ==
  LET picked[n \in 0 .. Len(s)] ==
        IF n = 0 THEN <<>>
        ELSE IF s[n] \in S THEN Append(picked[n - 1], s[n]) ELSE picked[n - 1]
  IN picked[Len(s)]

LoadAddons(list) == Only(list, {a \in Range(list) : Params(a) # Rejected})

-----------------------------------------------------------------------------
(* Rendering.                                                              *)

\* RenderResource: a parameter that is not declared shows nothing.
RenderResource(rule, params) ==
  [text |-> rule.text,
   shown |-> [n \in rule.shows |-> IF n \in DOMAIN params THEN params[n] ELSE ZeroByType["string"]]]

Addon(g, i) == gen[g][i]
Rule(g, i, j) == Addon(g, i).rules[j]

\* Mutant: one rendering for all tenants.
EntryOfAnyone(g, i, j, tenant) == {c \in kept : <<c.gen, c.addon, c.rule>> = <<g, i, j>>}

\* Mutant: renderings are kept by addon and rule, also over reloads.
EntryOfAnyList(g, i, j, tenant) ==
  {c \in kept : <<c.addon, c.rule, c.tenant>> = <<i, j, tenant>>}

\* tenantCache.
Entry(g, i, j, tenant) == {c \in kept : <<c.gen, c.addon, c.rule, c.tenant>> = <<g, i, j, tenant>>}

\* ResourceContentFor, with the rule's lock held: rendered once for each tenant.
ResourceContentFor(g, i, j, tenant, params) ==
  IF params = Nothing \/ params = <<>>
    THEN RenderResource(Rule(g, i, j), Params(Addon(g, i)))
    ELSE IF Entry(g, i, j, tenant) # {}
      THEN (CHOOSE c \in Entry(g, i, j, tenant) : TRUE).content
      ELSE RenderResource(Rule(g, i, j), params)

-----------------------------------------------------------------------------
(* A request.                                                              *)

\* The resolver of tenantInjectContext: may the tenant use the addon ...
Includes(r, id) ==
  LET t == req[r].tenant
  IN t # Visitor /\ Tenants[t].enabled # {} => id \in Tenants[t].enabled

\* ... and its parameters by the list of the context; Nothing is the global rendering.
\* Of addons with the same id the last one counts.
ContextParams(r, id) ==
  LET t == req[r].tenant
      list == gen[req[r].context]
      of == {i \in DOMAIN list : list[i].id = id}
      overrides == Overrides(Tenants[t].params, id)
  IN IF t = Visitor \/ of = {} \/ overrides = <<>> \/ ~Includes(r, id)
       THEN Nothing
       ELSE LET p == ParamsFor(list[CHOOSE i \in of : \A k \in of : k <= i], overrides)
            IN IF p = Rejected THEN Nothing ELSE p

Arrive(r) ==
  /\ req[r].pc = "idle"
  /\ \E t \in Ids \cup {Visitor} : req' = [req EXCEPT ![r].pc = "context", ![r].tenant = t]
  /\ UNCHANGED <<gen, kept, straddled>>

\* tenantInjectContext reads the list.
Context(r) ==
  /\ req[r].pc = "context"
  /\ req' = [req EXCEPT ![r].pc = "replace", ![r].context = Len(gen)]
  /\ UNCHANGED <<gen, kept, straddled>>

\* The rules of a list with one of some actions, by addon and rule.
Matching(list, actions) ==
  {ij \in UNION {{i} \X DOMAIN list[i].rules : i \in DOMAIN list} :
     list[ij[1]].rules[ij[2]].action \in actions}

Before(x, y) == x[1] < y[1] \/ (x[1] = y[1] /\ x[2] <= y[2])
FirstOf(rules) == CHOOSE x \in rules : \A y \in rules : Before(x, y)

\* The content of one rule for a request: what the rule keeps changes with the lock
\* held.
Content(r, g, i, j) ==
  ResourceContentFor(g, i, j, req[r].tenant, ContextParams(r, Addon(g, i).id))

Renders(r, g, i, j) ==
  LET t == req[r].tenant
      own == ~(ContextParams(r, Addon(g, i).id) \in {Nothing, <<>>})
  IN /\ kept' = IF own /\ Entry(g, i, j, t) = {}
                  THEN kept \cup {[gen |-> g, addon |-> i, rule |-> j, tenant |-> t,
                                  content |-> Content(r, g, i, j)]}
                  ELSE kept
     /\ straddled' = IF own /\ req[r].context # g THEN straddled \cup {<<g, t>>} ELSE straddled

\* MatchReplace gives the first rule of all; whether its addon is for the tenant is
\* asked afterwards.
Replace(r) ==
  /\ req[r].pc = "replace"
  /\ LET g == Len(gen)
         rules == Matching(gen[g], {"replace", "replace_content"})
         first == FirstOf(rules)
     IN IF rules # {} /\ Includes(r, Addon(g, first[1]).id)
          THEN /\ req' = [req EXCEPT ![r].pc = "done", ![r].list = g,
                                     ![r].page = <<Content(r, g, first[1], first[2])>>]
               /\ Renders(r, g, first[1], first[2])
          ELSE req' = [req EXCEPT ![r].pc = "match"] /\ UNCHANGED <<kept, straddled>>
  /\ UNCHANGED gen

\* MatchInjectFor reads the list once more.
Match(r) ==
  /\ req[r].pc = "match"
  /\ LET g == Len(gen)
     IN req' = [req EXCEPT ![r].pc = "render", ![r].list = g,
                           ![r].todo = {x \in Matching(gen[g], {"inject"}) :
                                          Includes(r, Addon(g, x[1]).id)},
                           ![r].found = [i \in DOMAIN gen[g] |-> <<>>]]
  /\ UNCHANGED <<gen, kept, straddled>>

\* The rules whose turn it is: one after the other, or with three addons and more a
\* goroutine for each addon.
Turns(r) ==
  IF Len(gen[req[r].list]) < 3
    THEN {FirstOf(req[r].todo)}
    ELSE {x \in req[r].todo : \A y \in req[r].todo : y[1] = x[1] => x[2] <= y[2]}

\* buildInjectItem.
Inject(r) ==
  /\ req[r].pc = "render" /\ req[r].todo # {}
  /\ \E x \in Turns(r) :
       /\ req' = [req EXCEPT ![r].todo = @ \ {x},
                             ![r].found[x[1]] = Append(@, Content(r, req[r].list, x[1], x[2]))]
       /\ Renders(r, req[r].list, x[1], x[2])
  /\ UNCHANGED gen

\* The results are joined in the order of the addons.
Answer(r) ==
  /\ req[r].pc = "render" /\ req[r].todo = {}
  /\ req' = [req EXCEPT ![r].pc = "done", ![r].page = FlattenSeq(req[r].found)]
  /\ UNCHANGED <<gen, kept, straddled>>

ReplaceAddons ==
  /\ Len(gen) <= MaxReloads
  /\ \E list \in Lists : gen' = Append(gen, LoadAddons(list))
  /\ UNCHANGED <<kept, req, straddled>>

-----------------------------------------------------------------------------
PageInit ==
  /\ \E list \in Lists : gen = <<LoadAddons(list)>>
  /\ kept = {} /\ straddled = {}
  /\ req = [r \in Requests |-> [pc |-> "idle", tenant |-> Nothing, context |-> 0, list |-> 0,
                                todo |-> {}, found |-> <<>>, page |-> <<>>]]

PageNext ==
  \/ \E r \in Requests :
       Arrive(r) \/ Context(r) \/ Replace(r) \/ Match(r) \/ Inject(r) \/ Answer(r)
  \/ ReplaceAddons

PageSpec == PageInit /\ [][PageNext]_pageVars

-----------------------------------------------------------------------------
\* What a list means for a tenant's page: the first replace rule if the tenant has the
\* addon, else what the tenant's addons inject, rule by rule in the order of the list.
Allowed(a, t) == t # Visitor /\ Tenants[t].enabled # {} => a.id \in Tenants[t].enabled

\* The rules of a list, each with its addon, one after the other.
RulesOf(list) ==
  FlattenSeq([i \in DOMAIN list |->
                [j \in DOMAIN list[i].rules |-> <<list[i], list[i].rules[j]>>]])

ReplacedBy(list, t) ==
  LET replacing == Only(RulesOf(list),
                        {x \in Range(RulesOf(list)) : x[2].action \in {"replace", "replace_content"}})
  IN IF replacing # <<>> /\ Allowed(replacing[1][1], t) THEN <<replacing[1][2].text>> ELSE <<>>

Texts(of) == [k \in DOMAIN of |-> of[k].text]

InjectedBy(list, t) ==
  FlattenSeq([i \in DOMAIN list |->
    LET rules == list[i].rules
    IN IF Allowed(list[i], t)
         THEN Texts(Only(rules, {x \in Range(rules) : x.action = "inject"})) ELSE <<>>])

\* The parameters a tenant may have been shown: its own by some list that was installed,
\* and everybody's.
Known(t) ==
  (UNION {{OwnParams(a, t) : a \in IF t = Visitor THEN {} ELSE Range(gen[h])}
            \cup {Params(a) : a \in Range(gen[h])} : h \in DOMAIN gen}) \ {Rejected}

\* A tenant's page holds exactly what its addons make of it, in the order of one list,
\* whatever other requests render at the same time (matcher.go:95), and nothing
\* rendered with another tenant's parameters (addon.go:183).  It is the rule of the list
\* that replaces pages, or else all that the list injects; the latter only if some list
\* since the request's context was read replaces nothing.
OwnPage ==
  \A r \in Requests :
    req[r].pc = "done" =>
      LET t == req[r].tenant
          list == gen[req[r].list]
          texts == Texts(req[r].page)
      IN /\ \/ texts = ReplacedBy(list, t) /\ texts # <<>>
            \/ /\ texts = InjectedBy(list, t)
               /\ \E h \in req[r].context .. req[r].list : ReplacedBy(gen[h], t) = <<>>
         /\ \A c \in Range(req[r].page) :
              \E a \in Range(list), p \in Known(t) :
                \E rule \in Range(a.rules) : c = RenderResource(rule, p)

\* The parameters a tenant has by one list: everybody's where its own do not resolve.
InForce(a, t) ==
  IF t = Visitor \/ OwnParams(a, t) = Rejected THEN Params(a) ELSE OwnParams(a, t)

\* The loader lets two addons have one id; the resolver then takes the last for both.
DistinctIds(list) == \A i, k \in DOMAIN list : list[i].id = list[k].id => i = k

\* A reload comes into effect for every tenant: a page made by one list shows the
\* parameters of that list, unless a request of the tenant had its context from an
\* older list, whose parameters the new rules then keep (server.go:305, addon.go:199).
PageIsCurrent ==
  \A r \in Requests :
    /\ req[r].pc = "done" /\ req[r].context = req[r].list
    /\ <<req[r].list, req[r].tenant>> \notin straddled
    /\ DistinctIds(gen[req[r].list])
    => \A c \in Range(req[r].page) :
         \E a \in Range(gen[req[r].list]) : \E rule \in Range(a.rules) :
           c = RenderResource(rule, InForce(a, req[r].tenant))
=============================================================================
