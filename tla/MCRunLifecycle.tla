---------------------------- MODULE MCRunLifecycle -------------------------
(***************************************************************************)
(* Small plans.  Nothing is the turn that only talks, or answers a card of *)
(* the other one.                                                          *)
(***************************************************************************)
EXTENDS RunLifecycle

CONSTANTS r1, r2

Step(deps, kind, form, trouble) == [deps |-> deps, kind |-> kind, form |-> form, trouble |-> trouble]
Read(deps, trouble) == Step(deps, "read", "none", trouble)
Write(deps) == Step(deps, "write", "none", {})
Question(deps, form) == Step(deps, "ask", form, {})

Of(steps) ==
    [steps |-> DOMAIN steps,
     deps |-> [n \in DOMAIN steps |-> steps[n].deps],
     kind |-> [n \in DOMAIN steps |-> steps[n].kind],
     form |-> [n \in DOMAIN steps |-> steps[n].form],
     trouble |-> [n \in DOMAIN steps |-> steps[n].trouble]]

Nothing == Of(<<>>)
TwoAsksThenWrite == Of(<<Question({}, "choice"), Question({}, "choice"), Write({1})>>)
ReadAsk == Of(<<Read({}, {"bad", "auth", "again", "lost"}), Question({1}, "choice")>>)
LateRead ==
    Of(<<Step({}, "ask", "choice", {"lost"}), Read({}, {"late", "lost"}), Write({1, 2})>>)
OneAsk == Of(<<Question({}, "choice")>>)

\* Two questions of different forms stay open together.
TwoForms == Of(<<Question({}, "choice"), Question({}, "text")>>)

Pair(p1, p2) == [r \in Run |-> IF r = r1 THEN p1 ELSE p2]

LifePlans ==
    {Pair(TwoAsksThenWrite, Nothing), Pair(ReadAsk, Nothing), Pair(LateRead, Nothing),
     Pair(OneAsk, OneAsk), Pair(TwoForms, Nothing)}

WriteAskWrite == Of(<<Write({}), Question({}, "choice"), Write({1, 2})>>)
SequencePlans == {Pair(WriteAskWrite, Nothing)}
ReconnectPlans == {Pair(ReadAsk, Nothing)}

\* With a step behind the first of the two, it is carried out twice: see NeverRerun.
FormThenRead == Of(<<Question({}, "choice"), Question({}, "text"), Read({1}, {})>>)
FormPlans == {Pair(FormThenRead, Nothing)}
============================================================================
