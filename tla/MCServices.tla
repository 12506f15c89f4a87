----------------------------- MODULE MCServices -----------------------------
(***************************************************************************)
(* Ten parts on small instances.  They share no variable, so they are not  *)
(* interleaved: the first state says which of them runs, and the others    *)
(* rest in one of their initial states.                                    *)
(***************************************************************************)
EXTENDS RateLimiter, DomainSnapshot, Accounts, PasswordGate, Paging,
        DeadLetterScan, LinkStats, HttpAnswer, HealthProbe, Codecs, TLC

CONSTANT Parts    \* the parts to be run

VARIABLE part

-----------------------------------------------------------------------------
(* Values of the constants. *)

Quotas == [login |-> 1, stats |-> 1, off |-> 0]

OneName == [d \in Domains |-> "a"]

IDs == {1, 2} \X {0, 1}

VisitorKinds == {[device |-> "desktop", country |-> ""],
                 [device |-> "", country |-> "DE"],
                 [device |-> "mobile", country |-> "FR"]}

\* Decimal, octal and hexadecimal, as 3, 2 and 4.
Bases == [prefix \in {"", "0", "0x"} |->
            IF prefix = "" THEN 3 ELSE IF prefix = "0" THEN 2 ELSE 4]

Number(prefix, digits) == [prefix |-> prefix, digits |-> digits]
Numbers == {Number("", <<>>), Number("", <<0>>), Number("", <<1>>), Number("", <<1, 0>>),
            Number("0", <<1, 0>>), Number("0", <<2>>),
            Number("0x", <<>>), Number("0x", <<3>>), Number("0x", <<1, 0, 0>>)}

Ranges == {<<0, 3>>, <<8, 11>>, <<12, 13>>}

Tag(name, length, upper) == [name |-> name, length |-> length, upper |-> upper]
Tags == {Tag("a", 1, TRUE), Tag("a", 1, FALSE), Tag("b", 1, FALSE), Tag("c", 2, FALSE),
         Tag("", 0, FALSE), Tag("long", 9, FALSE)}

-----------------------------------------------------------------------------

Init_All ==
  /\ part \in Parts
  /\ RateInit   /\ (part # "rates" => ~increx /\ ~disabled /\ ~trustProxy)
  /\ SnapInit   /\ (part # "domains" => domains = {} /\ linkDomain = [l \in Links |-> Absent])
  /\ AuthInit   /\ (part # "accounts" => \A s \in Servers : skew[s] = 0)
  /\ GateInit
  /\ PagingInit /\ (part # "paging" => list = "links" /\ \A r \in RowIds : ~table[r].exists)
  /\ ScanInit   /\ (part # "scan" => \A id \in StreamIDs : pending[id] = 0)
  /\ StatsInit  /\ (part # "stats" => zone = 0)
  /\ AnswerInit /\ (part # "answer" => ask = [api |-> TRUE, route |-> "handler"])
  /\ ProbeInit  /\ (part # "probe" => \A d \in Dependencies : health[d] = "up")
  /\ IF part = "codecs" THEN CodecInit
     ELSE sample = [kind |-> "number", of |-> 0] /\ result = <<>>

Next_All ==
  /\ UNCHANGED part
  /\ IF part = "rates"    THEN RateNext   ELSE UNCHANGED rateVars
  /\ IF part = "domains"  THEN SnapNext   ELSE UNCHANGED snapVars
  /\ IF part = "accounts" THEN AuthNext   ELSE UNCHANGED authVars
  /\ IF part = "gate"     THEN GateNext   ELSE UNCHANGED <<vars, gateVars>>
  /\ IF part = "paging"   THEN PagingNext ELSE UNCHANGED pagingVars
  /\ IF part = "scan"     THEN ScanNext   ELSE UNCHANGED scanVars
  /\ IF part = "stats"    THEN StatsNext  ELSE UNCHANGED statsVars
  /\ IF part = "answer"   THEN AnswerNext ELSE UNCHANGED answerVars
  /\ IF part = "probe"    THEN ProbeNext  ELSE UNCHANGED probeVars
  /\ IF part = "codecs"   THEN Convert    ELSE UNCHANGED codecVars

allVars == <<part, rateVars, snapVars, authVars, vars, gateVars, pagingVars, scanVars,
             statsVars, answerVars, probeVars, codecVars>>

Spec_All == Init_All /\ [][Next_All]_allVars

=============================================================================
