---------------------------- MODULE NameRouting -----------------------------
(***************************************************************************)
(* The names one connection answers for.  A connector's network has names  *)
(* of its own, which other networks may use as well; here they are asked   *)
(* for as <host>.<connector>.<instance>.robinet, rewritten for the         *)
(* connector's resolver, and its answer is rewritten back.                 *)
(*                                                                         *)
(* A name is the sequence of its labels in lower case without the final    *)
(* dot, so the root is << >>.  The router's table is made anew from the    *)
(* hub's route table and this machine's aliases at every refresh; a query  *)
(* keeps the route it was matched with.                                    *)
(***************************************************************************)
EXTENDS Naturals, Sequences

LOCAL INSTANCE SequencesExt

CONSTANTS
  Connectors,   \* names of connectors, of one label or more
  Carrying,     \* what one may carry: the domain of its network, << >> when names
                \* have no suffix, and the families of its routes
  Hosts,        \* what may stand before a name space, << >> included
  AliasNames,   \* names an operator may choose
  Foreign,      \* a name from outside every network here
  None

Instance == <<"example">>
Suffix == <<"robinet">>
CertSuffix == <<"instance">>

Types == {"A", "AAAA"}

ASSUME CarryingAssumption == \A w \in Carrying : w.domain \in Seq(STRING) /\ w.families \subseteq Types

VARIABLES
  aliases,      \* this machine's aliases: canonical name by alias
  table,        \* what the router answers from
  query,        \* one question: each is answered by a goroutine of its own
  seen          \* history: the hub's table and the aliases when the router's was made

nameVars == <<aliases, table, query, seen>>

\* The hub's table as a read may find it: what each connector answers for and carries.
HubTables == [Connectors -> Carrying \cup {None}]

NameSpace(c) == c \o Instance \o Suffix

Canonicals == {h \o NameSpace(c) : h \in Hosts, c \in Connectors}

-----------------------------------------------------------------------------
Route(virtual, real, via, families) ==
  [virtual |-> virtual, real |-> real, via |-> via, families |-> families]

\* Wrong on purpose: the first route that fits, in the order of the table.
matchFirst(t, name) ==
  LET fit == {i \in DOMAIN t : IsSuffix(t[i].virtual, name)}
  IN  IF fit = {} THEN None ELSE t[CHOOSE i \in fit : \A j \in fit : i <= j]

\* The longest name space wins, and of two equal ones the first.
match(t, name) ==
  LET fit == {i \in DOMAIN t : IsSuffix(t[i].virtual, name)}
      longest == {i \in fit : \A j \in fit : Len(t[j].virtual) <= Len(t[i].virtual)}
  IN  IF fit = {} THEN None ELSE t[CHOOSE i \in longest : \A j \in longest : i <= j]

Cut(name, suffix) == SubSeq(name, 1, Len(name) - Len(suffix))

bare(r) == r.real = << >>

rewrite(r, name) ==
  IF name = r.virtual THEN << >> ELSE Cut(name, r.virtual) \o r.real

\* Wrong on purpose: names of other networks are taken for names of this one.
restoreAny(r, name) ==
  IF bare(r) THEN name \o r.virtual
  ELSE IF IsSuffix(r.real, name) THEN Cut(name, r.real) \o r.virtual ELSE name

\* In a bare network a single label is one of its names.
restore(r, name) ==
  IF bare(r) THEN IF Len(name) = 1 THEN name \o r.virtual ELSE name
  ELSE IF IsSuffix(r.real, name) THEN Cut(name, r.real) \o r.virtual ELSE name

\* The lighthouse answers for the members by certificate name.
Lighthouse ==
  LET name == Instance \o CertSuffix IN Route(name, name, "lighthouse", Types)

routerTableFor(hub) ==
  LET on == {c \in Connectors : hub[c] # None}
  IN  Append(SetToSeq({Route(NameSpace(c), hub[c].domain, c, hub[c].families) : c \in on}),
             Lighthouse)

\* Wrong on purpose: an alias is a name space of its own, families and all.
withAliasPlain(t, alias, canonical) ==
  LET r == match(t, canonical)
  IN  IF r = None THEN t ELSE Append(t, Route(alias, r.real, r.via, Types))

\* One alias: whatever its canonical name points at, under another name.
withAlias(t, alias, canonical) ==
  LET r == match(t, canonical)
  IN  IF r = None THEN t ELSE Append(t, [r EXCEPT !.virtual = alias])

\* The aliases come in the order of a map, which is any.
withAliases(t, names, order) ==
  FoldLeft(LAMBDA acc, a : withAlias(acc, a, names[a]), t, order)

Orders(names) == SetToSeqs({a \in AliasNames : names[a] # None})
-----------------------------------------------------------------------------
\* A record: whose it is, of what kind, and what an alias record points at.
Record(owner, kind, target) == [owner |-> owner, kind |-> kind, target |-> target]

NoQuery == [pc |-> "none"]

NamesInit ==
  /\ aliases = [a \in AliasNames |-> None]
  /\ table = << >>
  /\ query = NoQuery
  /\ seen = [hub |-> [c \in Connectors |-> None], aliases |-> aliases]

\* Names that something answers for, going by one table of the hub or another.
Known == {n \in Canonicals : \E hub \in HubTables : match(routerTableFor(hub), n) # None}

\* The canonical name has to be one of them.
SetAlias(alias, canonical) ==
  /\ alias # canonical /\ canonical \in Known
  /\ aliases' = [aliases EXCEPT ![alias] = canonical]
  /\ UNCHANGED <<table, query, seen>>

DropAlias(alias) ==
  /\ aliases' = [aliases EXCEPT ![alias] = None]
  /\ UNCHANGED <<table, query, seen>>

\* A refresh, or a DNS plan, hands the router what the hub has now.
setTable(hub) ==
  /\ \E order \in Orders(aliases) :
       table' = withAliases(routerTableFor(hub), aliases, order)
  /\ seen' = [hub |-> hub, aliases |-> aliases]
  /\ UNCHANGED <<aliases, query>>

\* An answer; one without records stands for a refusal too, whichever its code.
Answer(name, route, records) ==
  [pc |-> "answered", name |-> name, route |-> route, records |-> records]

refuse(name, route) == Answer(name, route, {})

\* What is passed on of a reply: addresses of a family that is carried, and
\* alias records; anything else cannot be rewritten honestly.
restored(route, reply) ==
  {Record(restore(route, r.owner), r.kind, restore(route, r.target)) :
     r \in {x \in reply : x.kind = "CNAME" \/ x.kind \in route.families}}

\* A question is refused here, or sent to the connector under its own name.
answer(name, type) ==
  LET route == match(table, name)
  IN  /\ query.pc = "none"
      /\ query' = IF route = None THEN refuse(name, None)
                  ELSE IF type \notin route.families THEN refuse(name, route)
                  ELSE [pc |-> "asked", name |-> name, route |-> route]
      /\ UNCHANGED <<aliases, table, seen>>

\* Names of a route's network that an answer about one of them may hold.
OfNetwork(route, name) == {rewrite(route, name), <<"db">> \o route.real}

\* What a resolver may say about a name: nothing, records of it of either family,
\* or that it is another name for one of the same network or of another.
Replies(route, name) ==
  LET asked == rewrite(route, name)
  IN  {{}, {Record(asked, kind, asked) : kind \in Types \cup {"TXT"}}}
        \cup {{Record(asked, "CNAME", t), Record(t, "A", t)} : t \in OfNetwork(route, name) \cup {Foreign}}

Reply ==
  /\ query.pc = "asked"
  /\ \/ \E reply \in Replies(query.route, query.name) :
          query' = Answer(query.name, query.route, restored(query.route, reply))
     \/ query' = NoQuery                 \* no answer in time
  /\ UNCHANGED <<aliases, table, seen>>

\* Names somebody may ask for.
Questions ==
  {h \o s : h \in Hosts, s \in {NameSpace(c) : c \in Connectors} \cup AliasNames}
    \cup {Lighthouse.virtual, Foreign}

NamesNext ==
  \/ \E a \in AliasNames : DropAlias(a) \/ \E n \in Canonicals : SetAlias(a, n)
  \/ \E hub \in HubTables : setTable(hub)
  \/ \E n \in Questions, t \in Types : answer(n, t)
  \/ Reply

NamesSpec == NamesInit /\ [][NamesNext]_nameVars
-----------------------------------------------------------------------------
(* Properties.                                                             *)

Answered == query.pc = "answered" /\ query.records # {}

\* Names that can be told apart from those of other networks: not the name
\* space itself, and in a bare network one label.
Tellable(r, name) ==
  /\ name # r.virtual
  /\ bare(r) => Len(Cut(name, r.virtual)) = 1

\* "Nothing downstream ever sees the platform's own name space" (rewrite,
\* restore): an answer is about the name in the question, under whichever alias
\* it was asked; asking about any other name in it reaches the same network's
\* name again, unless it is from outside, and then it was left alone.
NamesComeBack ==
  Answered /\ Tellable(query.route, query.name) =>
    /\ \E r \in query.records : r.owner = query.name
    /\ \A r \in query.records : \A n \in {r.owner, r.target} :
         \/ n = Foreign
         \/ /\ IsSuffix(query.route.virtual, n)
            /\ rewrite(query.route, n) \in OfNetwork(query.route, query.name)

\* Name spaces with somebody behind them when the table was made.
Spaces == {c \in Connectors : seen.hub[c] # None}

\* "A more specific name space wins" (match): a name goes to the connector whose
\* name space it is in and in no narrower one, whatever the order of the table,
\* unless an alias takes it.
MostSpecific ==
  \A n \in {h \o NameSpace(c) : h \in Hosts, c \in Spaces} :
    LET r == match(table, n)
        owners == {c \in Spaces : IsSuffix(NameSpace(c), n)}
        narrowest == CHOOSE c \in owners : \A d \in owners : Len(d) <= Len(c)
    IN  \/ r.via = narrowest
        \/ \E a \in AliasNames : /\ seen.aliases[a] # None /\ IsSuffix(a, n)
                                 /\ Len(a) > Len(NameSpace(narrowest))

\* "<alias> answers exactly as <canonical> does" (withAliases), for an alias of
\* a name space that is not in one itself: the same connector is asked about
\* the same names, for the same families.
AliasAnswersAlike ==
  \A a \in AliasNames, c \in Spaces, h \in Hosts :
    LET n == h \o NameSpace(c)
        same == match(table, n)
        alike == match(table, h \o a)
    IN  /\ seen.aliases[a] = NameSpace(c)
        /\ ~IsSuffix(Suffix, a)
        /\ same.virtual = NameSpace(c)
        /\ \A b \in AliasNames \ {a} : ~IsSuffix(b, h \o a)
        => /\ alike = [same EXCEPT !.virtual = a]
           /\ rewrite(alike, h \o a) = rewrite(same, n)
=============================================================================
