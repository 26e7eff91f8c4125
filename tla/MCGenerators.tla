---- MODULE MCGenerators ----
EXTENDS Generators
CONSTANTS a, b, eos
MCTokens == {a, b, eos}
MCEos == {eos}
MCPrompts == {<<a, b, a>>, <<a, a>>}

\* spec_generate.py:140 and :145, the assertions of _demo.
ASSUME LookupDemo ==
    /\ LookupDraft(<<10, 20, 30, 40, 99, 10, 20>>, 2, 3) = <<30, 40, 99>>
    /\ LookupDraft(<<1, 2, 3>>, 2, 3) = <<>>
====
