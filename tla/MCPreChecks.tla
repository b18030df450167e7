---------------------------- MODULE MCPreChecks ----------------------------
(***************************************************************************)
(* Instances of PreChecks for TLC.                                         *)
(***************************************************************************)
EXTENDS PreChecks, MCVersion

Env(name, value) == [name |-> name, value |-> value]

\* A driver with nothing but its credentials.
Plain(t) == [type |-> t, common |-> << >>, authSecret |-> FALSE, metricsTLS |-> FALSE,
             useSecret |-> FALSE, longPrefix |-> FALSE, skipAuth |-> TRUE, modules |-> << >>]

\* Certificate settings: left out, one variable, both, the last of two.
Commons == {<< >>, << << >> >>, <<<<Env("skip", 0)>>>>, <<<<Env("skip", 0), Env("count", 2)>>>>,
            <<<<Env("other", 0), Env("other", 0)>>>>,
            <<<<Env("skip", 1), Env("count", 1), Env("skip", 0)>>>>, <<<<Env("bad", 0)>>>>}

CertCRs == {[Plain(t) EXCEPT !.common = c] : t \in {"powerscale", "powerstore", "unity"},
                                             c \in Commons}

ModuleCRs ==
    {[Plain("powerscale") EXCEPT !.authSecret = TRUE, !.skipAuth = b,
        !.modules = <<"authorization", "replication">>] : b \in BOOLEAN}
    \cup {[Plain("powermax") EXCEPT !.authSecret = b, !.useSecret = b,
            !.modules = <<"reverseproxy", "observability">>] : b \in BOOLEAN}
    \cup {[Plain("powerflex") EXCEPT !.metricsTLS = b, !.longPrefix = ~b,
            !.modules = <<"authorization", "replication">>] : b \in BOOLEAN}
    \cup {[Plain("powerflex") EXCEPT !.common = <<<<Env("bad", 0)>>>>],
          [Plain("unity") EXCEPT !.modules = <<"resiliency">>], Plain("cosi")}

DriverCRs == CertCRs \cup ModuleCRs

\* CRs whose pods mount a Secret that no check looks for.
PowerStoreAuthSecret == {[Plain("powerstore") EXCEPT !.authSecret = TRUE]}
PowerFlexCommon == {[Plain("powerflex") EXCEPT !.common = <<<<Env("other", 0), Env("other", 0)>>>>]}
PowerMaxMinimal == {Plain("powermax")}

Array(id, ok, default, key, zone) ==
    [id |-> id, ok |-> ok, default |-> default, key |-> key, zone |-> zone]

FlexContents ==
    {<< >>, <<<<Array("a", FALSE, FALSE, "", "")>>>>, <<<<Array("", TRUE, FALSE, "", "")>>>>}
    \cup {<<<<Array("a", TRUE, TRUE, "", ""), Array(id, TRUE, d, "", "")>>>> :
            id \in {"a", "b"}, d \in BOOLEAN}
    \cup {<<<<Array("a", TRUE, FALSE, "k", "z"), Array("b", TRUE, FALSE, l, l),
             Array("c", TRUE, TRUE, m, "z")>>>> : l \in {"", "k"}, m \in {"k", "l"}}
=============================================================================
