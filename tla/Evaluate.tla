------------------------------ MODULE Evaluate ------------------------------
(***************************************************************************)
(* Evaluation of the rules of a maildir block against one message          *)
(* (src/expr.c), followed by the interpolation of the matches it left      *)
(* (matches_interpolate), one top-level rule or one match per step.        *)
(***************************************************************************)
EXTENDS MatchList

CONSTANTS
    Configs,      \* blocks of rules, see Rule below
    Parts,        \* number of attachments of the message
    Directories,  \* paths that isdirectory finds
    XLabels       \* values of the message's X-Label header

VARIABLES
    config,   \* the block: a sequence of rules
    pos,      \* next rule, then next match to interpolate
    ml,       \* the match list
    ev,       \* "match", "nomatch" or "error"
    phase,    \* "eval", "interpolate" or "done"
    xlabel    \* the X-Label header of the message in memory

vars == <<config, pos, ml, ev, phase, xlabel>>

\* Expressions.  The message decides what a pattern matches, so header says so:
\* caps[1] is empty, or the strings it matches in the message, caps[n + 1] those
\* in attachment n.  It stands for header and body.  fails is a condition that
\* cannot be evaluated (command, date, attachments that cannot be parsed); all
\* stands for the conditions that leave nothing in the list.
All == [op |-> "all"]
HeaderOf(caps) == [op |-> "header", caps |-> caps]
Header(caps) == HeaderOf(<<caps>>)
Captures(ex, msg) == IF msg < Len(ex.caps) THEN ex.caps[msg + 1] ELSE << >>
IsDirectory(text) == [op |-> "stat", text |-> text]
Fails == [op |-> "fails"]
And(l, r) == [op |-> "and", lhs |-> l, rhs |-> r]
Or(l, r) == [op |-> "or", lhs |-> l, rhs |-> r]
Neg(l) == [op |-> "neg", lhs |-> l]
Attachment(l) == [op |-> "attachment", lhs |-> l]
\* An action, with the maildir, subdir, label or arguments it names.
Do(act) == [op |-> act]
Move(text) == [op |-> "move", text |-> text]
Flag(sub) == [op |-> "flag", sub |-> sub]
Label(text) == [op |-> "label", text |-> text]
Exec(args) == [op |-> "exec", args |-> args]
AddHeader(val) == [op |-> "add-header", args |-> <<val>>]
\* match cond act act ..., match cond { rules }, and match cond attachment
\* { rules } act act ...
Rule(cond, acts) == [op |-> "match", cond |-> cond, acts |-> acts]
Block(cond, rules) == [op |-> "match", cond |-> cond, rules |-> rules]
AttachmentBlock(cond, rules, acts) ==
    [op |-> "match", cond |-> cond, parts |-> rules, acts |-> acts]

\* The attachments of message msg.  Those of attachments are not considered.
PartsOf(msg) == IF msg = 0 THEN Parts ELSE 0

Result(e, l) == [ev |-> e, ml |-> l]

\* Variant: a match of an attachment is taken for one of the message.
EvalActionOnMessage(a, l, msg) ==
    LET mh == CASE a.op = "move" -> [Match("move") EXCEPT !.md = a.text]
                [] a.op = "flag" -> [Match("flag") EXCEPT !.sub = a.sub]
                [] a.op = "label" -> [Match("label") EXCEPT !.text = <<a.text>>]
                [] "args" \in DOMAIN a -> [Match(a.op) EXCEPT !.text = a.args]
                [] OTHER -> Match(a.op)
    IN  Result(IF a.op = "pass" THEN "nomatch" ELSE "match", MatchesAppend(l, mh))

\* expr_eval_add_header ... expr_eval_reject: an action appends itself.  pass
\* returns no match, to move on to the next rule.
EvalAction(a, l, msg) ==
    LET mh == CASE a.op = "move" -> [Match("move") EXCEPT !.md = a.text]
                [] a.op = "flag" -> [Match("flag") EXCEPT !.sub = a.sub]
                [] a.op = "label" -> [Match("label") EXCEPT !.text = <<a.text>>]
                [] "args" \in DOMAIN a -> [Match(a.op) EXCEPT !.text = a.args]
                [] OTHER -> Match(a.op)
    IN  Result(IF a.op = "pass" THEN "nomatch" ELSE "match",
               MatchesAppend(l, [mh EXCEPT !.msg = msg]))

\* expr_eval_and() over the actions of a rule: up to the first no match.
EvalActions(acts, l, msg) ==
    FoldLeft(LAMBDA r, a : IF r.ev = "match" THEN EvalAction(a, r.ml, msg) ELSE r,
             Result("match", l), acts)

\* expr_regexec()
EvalHeader(ex, l, msg) ==
    LET caps == Captures(ex, msg)
    IN  IF caps = << >> THEN Result("nomatch", l)
        ELSE Result("match",
                    MatchesAppend(l, [Match("header") EXCEPT !.caps = caps,
                                                             !.msg = msg]))

\* expr_eval_stat(): its match is in the list while its path is interpolated.
EvalStat(ex, l) ==
    LET mh == [Match("stat") EXCEPT !.path = [root |-> ex.text, sub |-> ""]]
        paths == InterpolatePath(Append(l, mh), Len(l) + 1)
    IN  Result(CASE paths = {} -> "error"
                 [] \E p \in paths : p.root \in Directories -> "match"
                 [] OTHER -> "nomatch", l)

\* expr_eval_attachment(): the first attachment for which the condition does not
\* return no match decides; what was appended for those before stays.
RECURSIVE EvalCond(_, _, _)
EvalAttachment(ex, l, msg) ==
    FoldLeft(LAMBDA r, n : IF r.ev # "nomatch" THEN r ELSE EvalCond(ex.lhs, r.ml, n),
             Result("nomatch", l), [n \in 1 .. PartsOf(msg) |-> n])

\* expr_eval(): conditions.
EvalCond(ex, l, msg) ==
    CASE ex.op = "all" -> Result("match", l)
      [] ex.op = "fails" -> Result("error", l)
      [] ex.op = "header" -> EvalHeader(ex, l, msg)
      [] ex.op = "stat" -> EvalStat(ex, l)
      [] ex.op = "attachment" -> EvalAttachment(ex, l, msg)
      [] ex.op = "and" ->
            LET r == EvalCond(ex.lhs, l, msg)
            IN  IF r.ev # "match" THEN r ELSE EvalCond(ex.rhs, r.ml, msg)
      [] ex.op = "or" ->
            LET r == EvalCond(ex.lhs, l, msg)
            IN  IF r.ev # "nomatch" THEN r ELSE EvalCond(ex.rhs, r.ml, msg)
      [] ex.op = "neg" ->
            \* its own match marks the place, and is removed in any case but
            \* an error; what is below goes with it when there is a match
            LET r == EvalCond(ex.lhs, Append(l, Match("neg")), msg)
            IN  CASE r.ev = "error" -> r
                  [] r.ev = "match" -> Result("nomatch", l)
                  [] OTHER -> Result("match", RemoveAt(r.ml, Len(l) + 1))

\* Variant: the mark of a break is not removed.
LeaveBlockKeepsBreak(r) ==
    LET passed == RemoveByType(r.ml, "pass")
    IN  CASE r.ev = "error" -> r
          [] Find(r.ml, "break") # 0 -> Result("nomatch", r.ml)
          [] Find(r.ml, "pass") # 0 ->
                Result(IF CountActions(passed) = 0 THEN "nomatch" ELSE "match",
                       passed)
          [] OTHER -> r

\* Variant: the mark of a pass is not removed.
LeaveBlockKeepsPass(r) ==
    LET unbroken == RemoveByType(r.ml, "break")
        passed == RemoveByType(r.ml, "pass")
    IN  CASE r.ev = "error" -> r
          [] Find(r.ml, "break") # 0 -> Result("nomatch", unbroken)
          [] Find(r.ml, "pass") # 0 ->
                Result(IF CountActions(passed) = 0 THEN "nomatch" ELSE "match", r.ml)
          [] OTHER -> r

\* The end of expr_eval_block(): what the rules of a block returned decides,
\* unless there is a break or a pass in the list.
LeaveBlock(r) ==
    LET unbroken == RemoveByType(r.ml, "break")
        passed == RemoveByType(r.ml, "pass")
    IN  CASE r.ev = "error" -> r
          [] Find(r.ml, "break") # 0 -> Result("nomatch", unbroken)
          [] Find(r.ml, "pass") # 0 ->
                Result(IF CountActions(passed) = 0 THEN "nomatch" ELSE "match",
                       passed)
          [] OTHER -> r

\* The rules of a block are tried in turn until one does not return no match.
RECURSIVE EvalRule(_, _, _)
EvalBlock(rules, l, msg) ==
    LeaveBlock(FoldLeft(LAMBDA r, rule : IF r.ev = "nomatch" THEN EvalRule(rule, r.ml, msg)
                                         ELSE r,
                        Result("nomatch", l), rules))

\* expr_eval_attachment_block(): those of an attachment block for each attachment,
\* up to the first error.  It is a match if it is one for any of them.
EvalParts(rules, l, msg) ==
    LET part(r, n) ==
            LET in == EvalBlock(rules, r.ml, n)
            IN  IF r.ev = "error" THEN r
                ELSE IF in.ev = "nomatch" THEN Result(r.ev, in.ml) ELSE in
    IN  FoldLeft(part, Result("nomatch", l), [n \in 1 .. PartsOf(msg) |-> n])

\* expr_eval_match(): the rule is the sentinel of its own matches.  An attachment
\* block is an action; if it does not match those after it are left out.
EvalRule(rule, l, msg) ==
    LET c == EvalCond(rule.cond, MatchesAppend(l, Match("match")), msg)
        parts == EvalParts(rule.parts, c.ml, msg)
    IN  CASE c.ev # "match" -> c
          [] "rules" \in DOMAIN rule -> EvalBlock(rule.rules, c.ml, msg)
          [] "parts" \in DOMAIN rule ->
                IF parts.ev = "match" THEN EvalActions(rule.acts, parts.ml, msg)
                ELSE parts
          [] OTHER -> EvalActions(rule.acts, c.ml, msg)

-----------------------------------------------------------------------------
Init ==
    /\ config \in Configs
    /\ pos = 1
    /\ ml = << >>
    /\ ev = "nomatch"
    /\ phase = "eval"
    /\ xlabel \in XLabels

\* The next rule of the outermost block.
NextRule ==
    /\ phase = "eval" /\ ev = "nomatch" /\ pos <= Len(config)
    /\ LET r == EvalRule(config[pos], ml, 0) IN ev' = r.ev /\ ml' = r.ml
    /\ pos' = pos + 1
    /\ UNCHANGED <<config, phase, xlabel>>

\* expr_eval() of the outermost block returns to handle_message().
LeaveRoot ==
    /\ phase = "eval"
    /\ ev # "nomatch" \/ pos > Len(config)
    /\ LET r == LeaveBlock(Result(ev, ml))
       IN  /\ ev' = r.ev
           /\ ml' = r.ml
           /\ phase' = IF r.ev = "match" THEN "interpolate" ELSE "done"
    /\ pos' = 1
    /\ UNCHANGED <<config, xlabel>>

\* match_interpolate() of the next match; the first error ends it all.
InterpolateNext ==
    /\ phase = "interpolate" /\ pos <= Len(ml)
    /\ LET paths == InterpolatePath(ml, pos)
           labels == IF ml[pos].type = "label"
                       THEN InterpolateLabels(ml, pos, xlabel) ELSE {xlabel}
           texts == IF ml[pos].type \in {"exec", "add-header"}
                      THEN InterpolateTexts(ml, pos, ml[pos].text)
                      ELSE {ml[pos].text}
       IN  IF paths = {} \/ labels = {} \/ texts = {}
             THEN /\ ev' = "error" /\ phase' = "done"
                  /\ UNCHANGED <<ml, pos, xlabel>>
             ELSE /\ \E p \in paths, t \in texts :
                        ml' = [ml EXCEPT ![pos].path = p, ![pos].text = t]
                  /\ xlabel' \in labels
                  /\ pos' = pos + 1
                  /\ UNCHANGED <<ev, phase>>
    /\ UNCHANGED config

\* The list is ready for matches_exec().
Ready ==
    /\ phase = "interpolate" /\ pos > Len(ml)
    /\ phase' = "done"
    /\ UNCHANGED <<config, pos, ml, ev, xlabel>>

Terminated == phase = "done" /\ UNCHANGED vars

Next == NextRule \/ LeaveRoot \/ InterpolateNext \/ Ready \/ Terminated

Spec == Init /\ [][Next]_vars

-----------------------------------------------------------------------------
(***************************************************************************)
(* What mdsort.conf(5) and the tests of pass and break promise, without    *)
(* match lists: a rule whose condition holds adds its actions; pass goes   *)
(* on to the next rule of the block, break leaves the block and what was   *)
(* added stays; a block matches when a rule of it without pass or break    *)
(* did, or when there is a pass in it and there are actions.               *)
(***************************************************************************)

\* Text t where caps are the patterns of the rule that matched.
Subst(t, caps) ==
    IF ~IsRef(t) THEN {t}
    ELSE {Lit(caps[i][j]) : i \in {t.mi + 1} \cap DOMAIN caps,
             j \in {k \in {t.si + 1} : t.mi < Len(caps)
                                       /\ k <= Len(caps[t.mi + 1])}}

\* Whether condition ex holds of message msg, and the patterns that matched:
\* caps and those of ex in the order tried, without those under a negation that
\* does not hold.
RECURSIVE Holds(_, _, _)
Holds(ex, caps, msg) ==
    LET left == Holds(ex.lhs, caps, msg)
        H(e, c) == [ev |-> e, caps |-> c]
    IN  CASE ex.op = "all" -> H("match", caps)
          [] ex.op = "fails" -> H("error", caps)
          [] ex.op = "header" -> IF Captures(ex, msg) = << >> THEN H("nomatch", caps)
                                 ELSE H("match", Append(caps, Captures(ex, msg)))
          [] ex.op = "stat" ->
                IF Subst(ex.text, caps) = {} THEN H("error", caps)
                ELSE IF Subst(ex.text, caps) \subseteq Directories
                THEN H("match", caps) ELSE H("nomatch", caps)
          [] ex.op = "and" -> IF left.ev = "match"
                              THEN Holds(ex.rhs, left.caps, msg) ELSE left
          [] ex.op = "or" -> IF left.ev = "nomatch"
                             THEN Holds(ex.rhs, left.caps, msg) ELSE left
          [] ex.op = "attachment" ->
                FoldLeft(LAMBDA h, n : IF h.ev = "nomatch" THEN Holds(ex.lhs, h.caps, n)
                                       ELSE h,
                         H("nomatch", caps), [n \in 1 .. PartsOf(msg) |-> n])
          [] ex.op = "neg" -> CASE left.ev = "match" -> H("nomatch", caps)
                                [] left.ev = "nomatch" -> H("match", left.caps)
                                [] OTHER -> left

\* The actions of a rule up to its pass.
Effective(acts) ==
    LET p == SelectInSeq(acts, LAMBDA a : a.op = "pass")
    IN  IF p = 0 THEN acts ELSE SubSeq(acts, 1, p)
Has(acts, op) == \E i \in DOMAIN acts : acts[i].op = op

\* The outcome of a block of rules about message msg, after actions acts of rules
\* outside of it.  tangled: a nested block ended without a match, or with a
\* break, while a pass of an enclosing block, or of itself, was in effect.
RECURSIVE Promised(_, _, _, _)
Promised(rules, acts, outer, msg) ==
    LET begin == [ev |-> "none", acts |-> acts, passed |-> FALSE,
                  tangled |-> FALSE]
        plain(r, c, as) ==
            [r EXCEPT !.acts = @ \o [i \in DOMAIN as |->
                                        [act |-> as[i], caps |-> c.caps, msg |-> msg]],
                      !.passed = @ \/ Has(as, "pass"),
                      !.tangled = @ \/ (Has(as, "break") /\ r.passed),
                      !.ev = CASE Has(as, "break") -> "nomatch"
                               [] Has(as, "pass") -> "none"
                               [] OTHER -> "match"]
        nested(r, rs, n) ==
            LET in == Promised(rs, r.acts, outer \/ r.passed, n)
            IN  [r EXCEPT !.acts = in.acts,
                          !.tangled = @ \/ in.tangled,
                          !.ev = IF in.ev = "nomatch" THEN @ ELSE in.ev]
        part(r, rs, n) == IF r.ev = "error" THEN r ELSE nested(r, rs, n)
        parts(r, rs) == FoldLeft(LAMBDA x, n : part(x, rs, n), r,
                                 [n \in 1 .. PartsOf(msg) |-> n])
        apply(r, rule) ==
            LET c == Holds(rule.cond, << >>, msg)
                after == parts(r, rule.parts)
            IN  CASE r.ev # "none" \/ c.ev = "nomatch" -> r
                  [] c.ev = "error" -> [r EXCEPT !.ev = "error"]
                  [] "rules" \in DOMAIN rule -> nested(r, rule.rules, msg)
                  [] "parts" \in DOMAIN rule ->
                        IF after.ev = "match"
                          THEN plain(after, c, Effective(rule.acts)) ELSE after
                  [] OTHER -> plain(r, c, Effective(rule.acts))
        end == FoldLeft(apply, begin, rules)
        real == SelectSeq(end.acts, LAMBDA x : x.act.op \notin {"pass", "break"})
    IN  [end EXCEPT
            !.acts = real,
            !.tangled = @ \/ (outer /\ end.ev = "none"),
            !.ev = IF @ # "none" THEN @
                   ELSE IF end.passed /\ real # << >> THEN "match"
                   ELSE "nomatch"]

Promise == Promised(config, << >>, FALSE, 0)
PromisedActs(op) == SelectSeq(Promise.acts, LAMBDA x : x.act.op = op)
PromisedTexts(op) == LET s == PromisedActs(op)
                     IN  [i \in DOMAIN s |-> Subst(s[i].act.text, s[i].caps)]

\* The arguments of a promised exec or add-header, each a set of one, empty if
\* it names a back-reference there is none for.
Arguments(x) == [i \in DOMAIN x.act.args |-> Subst(x.act.args[i], x.caps)]
HaveArguments == SelectSeq(Promise.acts, LAMBDA x : "args" \in DOMAIN x.act)
Resolved ==
    /\ \A op \in {"move", "label"} :
          \A i \in DOMAIN PromisedTexts(op) : PromisedTexts(op)[i] # {}
    /\ \A i \in DOMAIN HaveArguments :
          \A j \in DOMAIN Arguments(HaveArguments[i]) :
              Arguments(HaveArguments[i])[j] # {}

\* Evaluation ends as the manual promises, and the actions other than move and
\* flag are the ones promised, in that order: pass and break, sentinels and
\* marks in one list for all blocks, do not disturb each other
\* (expr_eval_block, expr_eval_neg, matches_remove_by_type).
BlocksAgree ==
    LET kinds == {"label", "add-header", "exec", "discard", "reject", "flags"}
        want == SelectSeq(Promise.acts, LAMBDA x : x.act.op \in kinds)
        have == SelectSeq(ml, LAMBDA mh : mh.type \in kinds)
    IN  phase = "done" =>
          IF Promise.ev = "match"
            THEN /\ Resolved => ev = "match"
                 /\ ev = "match" => Len(want) = Len(have)
                                    /\ \A i \in DOMAIN want :
                                          want[i].act.op = have[i].type
            ELSE ev = Promise.ev

\* Merging of move and flag is up to lists of moves alone, and of one move and
\* one flag; with no flags after any of them, and no flag after a move with a
\* back-reference.
Mergeable ==
    LET p == SelectSeq(Promise.acts,
                       LAMBDA x : x.act.op \in {"move", "flag", "flags"})
        count(op) == Len(SelectSeq(p, LAMBDA x : x.act.op = op))
    IN  /\ count("flag") = 0 \/ (count("flag") = 1 /\ count("move") <= 1)
        /\ \A i, j \in DOMAIN p : i < j =>
              /\ p[j].act.op # "flags"
              /\ p[j].act.op = "flag" /\ p[i].act.op = "move" =>
                    ~IsRef(p[i].act.text)

\* Whatever merging did to the list, the message ends up in the maildir of the
\* last move, with the back-references of its rule, and in the subdirectory of
\* the last flag ("the last action dictates the destination maildir anyway",
\* matches_merge; flag and move may come in either order).
DestinationIsLast ==
    phase = "done" /\ ev = "match" /\ Promise.ev = "match" /\ Mergeable =>
        /\ PromisedActs("move") = << >> => Destination(ml).root = Lit(SrcDir.root)
        /\ PromisedActs("move") # << >> =>
              Destination(ml).root \in Last(PromisedTexts("move"))
        /\ Destination(ml).sub = IF PromisedActs("flag") = << >> THEN SrcDir.sub
                                 ELSE Last(PromisedActs("flag")).act.sub

\* The X-Label header ends up with the labels it had, as they were, and the
\* labels of the rules that applied, in order, the back-references of each from
\* its own rule.
LabelsAreAdded ==
    phase = "done" /\ ev = "match" =>
        \E x \in XLabels :
            LET added == SubSeq(xlabel, Len(x) + 1, Len(xlabel))
            IN  /\ IsPrefix(x, xlabel)
                /\ Len(added) = Len(PromisedTexts("label"))
                /\ \A i \in DOMAIN added : added[i] \in PromisedTexts("label")[i]

\* Commands are run and headers added for the message or attachment they were
\* meant for, with the back-references of their own rule, also where the rules
\* of a block were tried on one attachment after another and the patterns that
\* matched in all of them are in the list (expr_eval_attachment_block).
ArgumentsAreMeant ==
    LET have == SelectSeq(ml, LAMBDA mh : mh.type \in {"exec", "add-header"})
    IN  phase = "done" /\ ev = "match" /\ Promise.ev = "match" =>
          \A i \in DOMAIN have :
              /\ have[i].msg = HaveArguments[i].msg
              /\ \A j \in DOMAIN have[i].text :
                    have[i].text[j] \in Arguments(HaveArguments[i])[j]

\* What is handed to matches_exec() is a list Delivery is about: there is
\* something to do, no mark of any block is left in it, and nothing comes after
\* discard or reject, although expr_validate() looks at the actions of one rule
\* only (parse.y).
PlansAreWellFormed ==
    LET p == SelectSeq(ml, LAMBDA mh : mh.type \in Actions)
    IN  phase = "done" /\ ev = "match" =>
          /\ p # << >>
          /\ \A i \in DOMAIN p :
                /\ p[i].type \notin {"pass", "break"}
                /\ p[i].type \in {"discard", "reject"} => i = Len(p)

=============================================================================
