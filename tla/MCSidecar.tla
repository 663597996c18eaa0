------------------------------ MODULE MCSidecar ------------------------------
(***************************************************************************)
(* The sidecar with a name only the model finds and an address the         *)
(* recognizers find: texts that show them found, missed, and both in one   *)
(* value of two leaves.                                                    *)
(***************************************************************************)
EXTENDS SidecarProperties, TLC

CONSTANTS ada, box, Name, Mail

MCValues == {ada, box}
MCLabelOf == (ada :> Name) @@ (box :> Mail)
MCByModel == {ada}

Of(found, missed) == [found |-> found, missed |-> missed]

Echo == {Of({}, {ada})}
Greeting == {Of({ada}, {})}
Letter == {Of({ada, box}, {}), Of({box}, {ada})}

PolicyTexts == {Echo, Letter}
OneText == {Greeting}
Pair == {{Of({ada}, {}), Of({box}, {})}}
TwoTexts == {Echo, Greeting}

NamesAndMail == {Name, Mail}
MailOnly == {Mail}
TwoPolicies == {NamesAndMail, MailOnly}
OnePolicy == {NamesAndMail}
\* Callers, keys and vaults are only ever compared.
Alike == Permutations(Callers) \cup Permutations(Keys) \cup Permutations(VaultIds)
=============================================================================
