---------------------------- MODULE AccessRules ----------------------------
(* Which requests are let through and to which nodes they go: the rules of   *)
(* access (acl.ts), with the cache of their verdicts, and the rules that     *)
(* give a host name its tag (domain-router.ts). A condition of a rule is the *)
(* set of what it lets pass, empty when the rule does not have it.           *)
EXTENDS Lists, Integers, Sequences, SequencesExt, FiniteSets

CONSTANTS
  RuleSet,       \* rules that may be added: action, priority and conditions
  DomainRuleSet, \* domain rules that may be added: pattern, tag, priority
  Accesses,      \* requests that are checked
  Names,         \* host names, as numbers
  NodeTags,      \* tags a node may have
  AddressBits,   \* width of an address; 32 in the code
  VerdictTTL,    \* _cacheTTL
  HourLength,    \* ticks of an hour, of which a day has two
  MaxAdded,      \* bound: rules added
  LastTick       \* bound: the clock

ASSUME AccessAssumption ==
  /\ \A r \in RuleSet : {"action", "priority"} \subseteq DOMAIN r /\ r.priority \in Int
  /\ \A r \in DomainRuleSet : {"pattern", "tag", "priority"} \subseteq DOMAIN r /\ r.priority \in Int
  /\ {AddressBits, VerdictTTL, HourLength} \subseteq Nat \ {0} /\ MaxAdded \in Nat /\ LastTick \in Nat

VARIABLES
  rules,         \* the rules of access, the first to be tried first
  domainRules,   \* the domain rules, likewise
  verdicts,      \* _cache: request -> verdict, when it was given, node tags then
  nodeTags,      \* the tags of the node that UDP goes through
  tick,          \* Date.now()
  added          \* history: rules added so far

accessVars == <<rules, domainRules, verdicts, nodeTags, tick, added>>

AccessInit ==
  /\ rules = << >> /\ domainRules = << >> /\ verdicts = << >>
  /\ nodeTags = {} /\ tick = 0 /\ added = 0

----------------------------------------------------------------------------
(* _isInCIDR(): the prefix is text, so 0 is not the number the code treats   *)
(* apart, and a shift by the width of the word shifts by nothing.            *)
InNet(address, net) ==
  LET shift == 2 ^ ((AddressBits - net.bits) % AddressBits)
  IN address \div shift = net.address \div shift

Hour(t) == (t \div HourLength) % 2

(* check(): a condition whose subject the request does not have is skipped.  *)
Applies(rule, request, tags, t) ==
  /\ \A address \in request.source : rule.source # {} => \E net \in rule.source : InNet(address, net)
  /\ rule.domain # {} => request.name \cap rule.domain # {}
  /\ \A address \in request.address : rule.ip # {} => \E net \in rule.ip : InNet(address, net)
  /\ rule.port # {} => request.port \in rule.port
  /\ rule.protocol # {} => request.protocol \in rule.protocol
  /\ rule.tag # {} => tags \cap rule.tag # {}
  /\ rule.hours # {} => Hour(t) \in rule.hours

(* Only UDP is checked with the node it goes through.                        *)
TagsOf(request) == IF request.protocol = "udp" THEN nodeTags ELSE {}

Verdict(request) ==
  LET first == SelectInSeq(rules, LAMBDA r : Applies(r, request, TagsOf(request), tick))
  IN first = 0 \/ rules[first].action = "allow"

Fresh(request) == request \in DOMAIN verdicts /\ tick - verdicts[request].time < VerdictTTL

(* A check answers from the cache, or evaluates the rules and remembers.     *)
CheckAccess(request) ==
  /\ rules # << >> /\ ~Fresh(request)
  /\ verdicts' = [q \in DOMAIN verdicts \cup {request} |->
       IF q = request THEN [allowed |-> Verdict(request), time |-> tick, tags |-> TagsOf(request)]
       ELSE verdicts[q]]
  /\ UNCHANGED <<rules, domainRules, nodeTags, tick, added>>

----------------------------------------------------------------------------
(* rules.sort() by falling priority is stable: a new rule goes behind those  *)
(* of its priority.                                                          *)
Placed(list, rule) ==
  LET lower == SelectInSeq(list, LAMBDA r : r.priority < rule.priority)
  IN IF lower = 0 THEN Append(list, rule) ELSE InsertAt(list, lower, rule)

Numbered(rule, n) == [f \in DOMAIN rule \cup {"id"} |-> IF f = "id" THEN n ELSE rule[f]]

(* addRule() and removeRule() forget every verdict.                          *)
NoVerdicts == << >>

AddRule(rule) ==
  /\ added < MaxAdded /\ added' = added + 1
  /\ rules' = Placed(rules, Numbered(rule, added)) /\ verdicts' = NoVerdicts
  /\ UNCHANGED <<domainRules, nodeTags, tick>>

RemoveRule(i) ==
  /\ rules' = RemoveAt(rules, i) /\ verdicts' = NoVerdicts
  /\ UNCHANGED <<domainRules, nodeTags, tick, added>>

AddDomainRule(rule) ==
  /\ added < MaxAdded /\ added' = added + 1
  /\ domainRules' = Placed(domainRules, Numbered(rule, added))
  /\ UNCHANGED <<rules, verdicts, nodeTags, tick>>

(* removeRule(pattern) takes every rule with that pattern.                   *)
RemoveDomainRule(pattern) ==
  /\ \E r \in ToSet(domainRules) : r.pattern = pattern
  /\ domainRules' = Kept(domainRules, {i \in DOMAIN domainRules : domainRules[i].pattern # pattern})
  /\ UNCHANGED <<rules, verdicts, nodeTags, tick, added>>

(* match(): the tag of the first rule with a pattern for the host, or none.  *)
TagFor(name) ==
  LET first == SelectInSeq(domainRules, LAMBDA r : name \in r.pattern)
  IN IF first = 0 THEN {} ELSE {domainRules[first].tag}

SetNodeTags(tags) ==
  /\ tags # nodeTags /\ nodeTags' = tags
  /\ UNCHANGED <<rules, domainRules, verdicts, tick, added>>

AccessTick ==
  /\ tick < LastTick /\ tick' = tick + 1
  /\ UNCHANGED <<rules, domainRules, verdicts, nodeTags, added>>

AccessNext ==
  \/ \E rule \in RuleSet : AddRule(rule)
  \/ \E i \in DOMAIN rules : RemoveRule(i)
  \/ \E rule \in DomainRuleSet : AddDomainRule(rule) \/ RemoveDomainRule(rule.pattern)
  \/ \E request \in Accesses : CheckAccess(request)
  \/ \E tags \in SUBSET NodeTags : SetNodeTags(tags)
  \/ AccessTick

AccessSpec == AccessInit /\ [][AccessNext]_accessVars

----------------------------------------------------------------------------
AccessTypeOK ==
  /\ Len(rules) + Len(domainRules) <= added /\ added \in 0..MaxAdded
  /\ DOMAIN verdicts \subseteq Accesses /\ nodeTags \subseteq NodeTags /\ tick \in 0..LastTick

(* The rule that counts: of the highest priority, and among those the one    *)
(* that was added first.                                                     *)
Decisive(candidates) ==
  {r \in candidates : \A s \in candidates : <<r.priority, s.id>> # <<s.priority, r.id>> =>
     r.priority > s.priority \/ (r.priority = s.priority /\ r.id < s.id)}

(* A remembered verdict that still counts is what the rules of now said when *)
(* it was given, and a host name's tag is that of the rule that counts: no   *)
(* order of adding, removing and checking lets a removed rule, or one that   *)
(* another overrides, decide.                                                *)
RulesDecide ==
  /\ \A q \in DOMAIN verdicts :
       Fresh(q) => verdicts[q].allowed =
         \A r \in Decisive({r \in ToSet(rules) : Applies(r, q, verdicts[q].tags, verdicts[q].time)}) :
           r.action = "allow"
  /\ \A name \in Names : TagFor(name) = {r.tag : r \in Decisive({r \in ToSet(domainRules) : name \in r.pattern})}

(* "Block all traffic to 10.0.0.0/8" (config.yaml:218, of a rule with        *)
(* nothing but targetIp): such a rule denies a request to an address of the  *)
(* net, and no other.                                                        *)
TargetIsBlocked ==
  \A r \in ToSet(rules) :
    r.action = "deny" /\ r.ip # {} /\ Cardinality(ToSet(rules)) = 1 =>
      \A q \in DOMAIN verdicts :
        ~verdicts[q].allowed => \E address \in q.address, net \in r.ip : InNet(address, net)
=============================================================================
