------------------------------- MODULE Groups -------------------------------
(***************************************************************************)
(* Address groups and the lists of people typed into forms                 *)
(* (services/addresses.ts, services/groups.ts, the group routes and        *)
(* recipientsFromForm of http/admin.ts, the picker of public/admin.js and  *)
(* the forms of views/admin.ts).                                           *)
(*                                                                         *)
(* The accounts work in a window each, on pages that may be older than     *)
(* what they show.  sessionMiddleware reads the account when the headers   *)
(* of a form arrive, the handler runs when the body is in: in between the  *)
(* sender may lose the role or the account, and the group its creator.     *)
(* A line of a text area is read as parseEntry reads it; names of groups,  *)
(* the confirmation of the password, assignments and the gate of an issued *)
(* password (Panel) are left out: a form they stop changes nothing.        *)
(***************************************************************************)
EXTENDS Integers, SequencesExt

CONSTANTS
  Account,
  Admins,          \* the administrators there are at first
  RoleChanges,     \* bound: the accounts whose role an administrator changes
  Email, Lang,
  None,            \* no language given, no creator
  Typed,           \* the lines that are typed
  Groups0,         \* bound: the lists a group may have at first
  MaxRecipients,   \* MAX_RECIPIENTS
  MaxGroups,       \* bound: groups ever created
  MaxText,         \* bound: lines of a text area
  MaxPages         \* bound: pages opened

Recipient == [email : Email, lang : Lang]
\* A line names an address; "?" stands for what cannot be read after it, and aside for
\* addresses in the display name before it.
Line == [email : Email, lang : Lang \cup {None, "?"}, aside : SUBSET Email]
Group == 1..MaxGroups

\* No two people of a list have the same address: what createGroup stores.
Distinct(list) == \A i, j \in DOMAIN list : list[i].email = list[j].email => i = j

ASSUME GroupsAssumption ==
  /\ Admins \subseteq Account /\ Admins # {} /\ RoleChanges \subseteq Account
  /\ None \notin Lang /\ "?" \notin Lang \cup {None}
  /\ Typed \subseteq Line /\ Groups0 \subseteq Seq(Recipient) /\ \A ms \in Groups0 : Distinct(ms)
  /\ MaxRecipients \in Nat \ {0} /\ MaxGroups \in Nat \ {0}

VARIABLES
  accounts,   \* those that have not been deleted
  admins,     \* the administrators among them
  groups,     \* the groups there are, with their creator and members
  made,       \* how many there have been
  link,       \* the people of the one link of the case, none before it is made
  page,       \* what an account is looking at
  pages,      \* how many have been opened
  sent,       \* "no", or the role read when the headers of the page's form arrived
  could       \* history: the groups the sender might change at some time since then

people == <<accounts, admins>>
vars == <<people, groups, made, link, page, pages, sent, could>>

\* A page of a case, or the form of a group (0: a new one), with the members of the
\* groups it knows of.  meant is history: whom the reader of a case typed or picked.
NoPage == [kind |-> "none"]
PageOf(k, g, withScript, t, l) ==
  [kind |-> k, group |-> g, script |-> withScript, text |-> t, picked |-> 0, lang |-> l, meant |-> <<>>,
   known |-> [h \in IF k = "case" THEN DOMAIN groups ELSE DOMAIN groups \cap {g} |-> groups[h].members]]

Init ==
  /\ accounts = Account
  /\ admins = Admins
  /\ \/ groups = <<>> /\ made = 0
     \/ /\ \E o \in Account \cup {None}, ms \in Groups0 : groups = <<[owner |-> o, members |-> ms]>>
        /\ made = 1
  /\ link = <<>>
  /\ page = [a \in Account |-> NoPage]
  /\ pages = 0
  /\ sent = [a \in Account |-> "no"]
  /\ could = [a \in Account |-> {}]

-----------------------------------------------------------------------------
(* Lists of people *)

Emails(list) == {r.email : r \in ToSet(list)}

mergeRecipients(list) ==
  FoldLeft(LAMBDA out, r : IF r.email \in Emails(out) THEN out ELSE Append(out, r), <<>>, list)

\* Array.filter, as a loop.
Within(list, wanted) ==
  FoldLeft(LAMBDA out, x : IF x \in wanted THEN Append(out, x) ELSE out, <<>>, list)
Without(list, emails) == Within(list, {x \in ToSet(list) : x.email \notin emails})

Invalid(text) == \E l \in ToSet(text) : l.lang = "?"
Readable(text) == Within(text, {l \in ToSet(text) : l.lang # "?"})

Read(l, default) == [email |-> l.email, lang |-> IF l.lang = None THEN default ELSE l.lang]
parseRecipients(text, default) == mergeRecipients([i \in DOMAIN text |-> Read(text[i], default)])

\* Mutant: the language is left out when it is formatted.
Addresses(list) == [i \in DOMAIN list |-> [email |-> list[i].email, lang |-> None, aside |-> {}]]
formatRecipients(list) == [i \in DOMAIN list |-> [email |-> list[i].email, lang |-> list[i].lang, aside |-> {}]]

\* Mutant: what is chosen is used instead of what is typed.
Instead(list, extra) == IF extra = <<>> THEN list ELSE extra
Union(list, extra) == mergeRecipients(list \o extra)

\* requireRecipients: the list, if the form is accepted.
requireRecipients(text, default, extra) == Union(parseRecipients(text, default), extra)
Accepted(text, default, extra) ==
  ~Invalid(text) /\ Len(requireRecipients(text, default, extra)) \in 1..MaxRecipients

groupMembers(g) == IF g \in DOMAIN groups THEN groups[g].members ELSE <<>>

-----------------------------------------------------------------------------
(* The panel in the browser *)

\* The account looks at a page, and has not sent its form.
Looks(a) == a \in accounts /\ sent[a] = "no"

OpenCase(a, withScript, l) ==
  /\ Looks(a)
  /\ pages < MaxPages /\ pages' = pages + 1
  /\ page' = [page EXCEPT ![a] = PageOf("case", 0, withScript, <<>>, l)]
  /\ UNCHANGED <<people, groups, made, link, sent>>

\* Mutant: those without a creator are everybody's.
SharedWhenOrphaned(role, a, f, g) == role = "admin" \/ f[g].owner \in {a, None}
canEditGroup(role, a, f, g) == role = "admin" \/ f[g].owner = a

RoleOf(a) == IF a \in admins THEN "admin" ELSE "user"

\* The groups page: an empty form, or that of a group the account may change.
OpenGroup(a, g, l) ==
  /\ Looks(a)
  /\ pages < MaxPages /\ pages' = pages + 1
  /\ g = 0 \/ (g \in DOMAIN groups /\ canEditGroup(RoleOf(a), a, groups, g))
  /\ page' = [page EXCEPT ![a] =
       PageOf("group", g, FALSE, IF g = 0 THEN <<>> ELSE formatRecipients(groups[g].members), l)]
  /\ UNCHANGED <<people, groups, made, link, sent>>

Type(a, l) ==
  /\ Looks(a) /\ page[a] # NoPage /\ Len(page[a].text) < MaxText
  /\ page' = [page EXCEPT ![a].text = Append(@, l),
                          ![a].meant = IF l.lang = "?" \/ page[a].kind = "group" THEN @
                                        ELSE mergeRecipients(Append(@, Read(l, page[a].lang)))]
  /\ UNCHANGED <<people, groups, made, link, pages, sent>>

\* A line is struck out; the rest is as its reader sees it.
Strike(a, i) ==
  /\ Looks(a) /\ page[a] # NoPage /\ i \in DOMAIN page[a].text
  /\ page' = [page EXCEPT ![a].text = RemoveAt(@, i),
                          ![a].meant = IF page[a].kind = "group" THEN @
                                        ELSE parseRecipients(Readable(RemoveAt(page[a].text, i)), page[a].lang)]
  /\ UNCHANGED <<people, groups, made, link, pages, sent>>

\* admin.js: an address anywhere in the text is present, also in a display name.
Present(text) == UNION {{l.email} \cup l.aside : l \in ToSet(text)}

\* Mutant: the choice stays when it has been copied.
StillPicked(g) == g
Cleared(g) == 0

\* A group of the page is chosen: with the script its members, as the page knows them,
\* are copied into the text; without, the choice is sent with the form.
Pick(a, g) ==
  /\ Looks(a) /\ page[a].kind = "case" /\ g \in DOMAIN page[a].known
  /\ LET p == page[a]
         lines == formatRecipients(p.known[g])
     IN  page' = [page EXCEPT ![a] =
           IF p.script
           THEN [p EXCEPT !.text = p.text \o Without(lines, Present(p.text)),
                          !.meant = mergeRecipients(p.meant \o p.known[g]),
                          !.picked = Cleared(g)]
           ELSE [p EXCEPT !.picked = g]]
  /\ UNCHANGED <<people, groups, made, link, pages, sent>>

-----------------------------------------------------------------------------
(* The routes *)

\* The headers arrive.
Send(a) ==
  /\ Looks(a) /\ page[a] # NoPage
  /\ sent' = [sent EXCEPT ![a] = RoleOf(a)]
  /\ UNCHANGED <<people, groups, made, link, page, pages>>

\* A form is in: of a case, or of group g.
Received(a, kind) == sent[a] # "no" /\ page[a].kind = kind
Close(a) == page' = [page EXCEPT ![a] = NoPage]
Answered(a) == Close(a) /\ sent' = [sent EXCEPT ![a] = "no"]

\* An error page, or a body that never comes.
Leave(a) ==
  /\ sent[a] # "no"
  /\ Answered(a)
  /\ UNCHANGED <<people, groups, made, link, pages>>

\* POST /cases/:id/links and then /links/:id/recipients; a refusal shows an empty form.
\* The assignments of a user went with the account (caseFor).
AddPeople(a) ==
  /\ Received(a, "case")
  /\ a \in accounts \/ sent[a] = "admin"
  /\ LET p == page[a]
         extra == groupMembers(p.picked)
         list == requireRecipients(p.text, p.lang, extra)
         fresh == Without(list, Emails(link))
     IN  link' = IF Accepted(p.text, p.lang, extra) /\ Len(link) + Len(fresh) <= MaxRecipients
                 THEN link \o fresh ELSE link
  /\ Answered(a)
  /\ UNCHANGED <<people, groups, made, pages>>

\* POST /groups; the row names its creator, whom the foreign key asks for.
createGroup(a) ==
  /\ Received(a, "group") /\ page[a].group = 0
  /\ a \in accounts
  /\ made < MaxGroups
  /\ Accepted(page[a].text, page[a].lang, <<>>)
  /\ made' = made + 1
  /\ groups' = [g \in DOMAIN groups \cup {made'} |->
       IF g = made' THEN [owner |-> a, members |-> parseRecipients(page[a].text, page[a].lang)] ELSE groups[g]]
  /\ Answered(a)
  /\ UNCHANGED <<people, link, pages>>

\* editableGroup: the role of the headers, the group and its creator as they are.
Editable(a, g) == g \in DOMAIN groups /\ canEditGroup(sent[a], a, groups, g)

\* POST /groups/:id
updateGroup(a) ==
  /\ Received(a, "group")
  /\ LET g == page[a].group
     IN  /\ Editable(a, g)
         /\ Accepted(page[a].text, page[a].lang, <<>>)
         /\ groups' = [groups EXCEPT ![g].members = parseRecipients(page[a].text, page[a].lang)]
  /\ Answered(a)
  /\ UNCHANGED <<people, made, link, pages>>

\* POST /groups/:id/delete
deleteGroup(a) ==
  /\ Received(a, "group")
  /\ LET g == page[a].group
     IN  /\ Editable(a, g)
         /\ groups' = [h \in DOMAIN groups \ {g} |-> groups[h]]
  /\ Answered(a)
  /\ UNCHANGED <<people, made, link, pages>>

\* An administrator deletes an account: its pages are worth nothing, the form that is
\* in goes on, and its groups stay (006_group_owner.sql).
DeleteAccount(a) ==
  /\ a \in accounts /\ admins \ {a} # {}
  /\ accounts' = accounts \ {a}
  /\ admins' = admins \ {a}
  /\ groups' = [g \in DOMAIN groups |-> [groups[g] EXCEPT !.owner = IF @ = a THEN None ELSE @]]
  /\ IF sent[a] = "no" THEN Close(a) ELSE UNCHANGED page
  /\ UNCHANGED <<made, link, pages, sent>>

\* Another administrator changes the role: there is one left, and the sessions go on.
SetUserRole(a) ==
  /\ a \in accounts \cap RoleChanges
  /\ \/ admins' = admins \cup {a}
     \/ admins \ {a} # {} /\ admins' = admins \ {a}
  /\ UNCHANGED <<accounts, groups, made, link, page, pages, sent>>

\* History: whom the groups were open to since the forms that are in were sent.
MayChange(a) == {g \in DOMAIN groups : a \in admins \/ groups[g].owner = a}
Noted == could' = [a \in Account |-> IF sent'[a] = "no" THEN {} ELSE could[a] \cup MayChange(a)']

Step ==
  \E a \in Account :
     \/ \E l \in Lang : (\E b \in BOOLEAN : OpenCase(a, b, l)) \/ \E g \in Group \cup {0} : OpenGroup(a, g, l)
     \/ \E l \in Typed : Type(a, l)
     \/ \E i \in 1..(MaxText + Cardinality(Email)) : Strike(a, i)
     \/ \E g \in Group : Pick(a, g)
     \/ Send(a) \/ Leave(a)
     \/ AddPeople(a) \/ createGroup(a) \/ updateGroup(a) \/ deleteGroup(a)
     \/ DeleteAccount(a) \/ SetUserRole(a)

Next == Step /\ Noted

Spec == Init /\ [][Next]_vars

-----------------------------------------------------------------------------
(* Properties *)

\* "The administrator sees who is being added": with the script nobody gets access
\* whose address was not in the text when the form was sent, however the group that
\* was picked has changed since; without it, whom the group holds by then.
Shown(a) ==
  Emails(page[a].text) \cup IF page[a].script THEN {} ELSE Emails(groupMembers(page[a].picked))
NobodyUnseen ==
  [][\A a \in Account : AddPeople(a) => Emails(link') \ Emails(link) \subseteq Shown(a)]_vars

\* Whoever was typed or picked can open the link once the form is accepted, and is
\* written to in the language first given ("a silently dropped typo would lock a
\* person out").  An address that stands in somebody's display name is not added by
\* the script.
Meant(a) == page[a].meant \o groupMembers(page[a].picked)
Asides(a) == UNION {l.aside : l \in ToSet(page[a].text)}
First(list, e) == list[Min({i \in DOMAIN list : list[i].email = e})]
NobodyDropped ==
  [][\A a \in Account : AddPeople(a) /\ link' # link =>
       \A e \in Emails(Meant(a)) \ Emails(link) :
         First(Meant(a), e) \in ToSet(link') \/ (page[a].script /\ e \in Asides(a))]_vars

\* Saving the form of a group as it was shown changes nothing ("it round-trips through
\* a textarea"), in whatever language the form was sent.
SavedAsShown ==
  [][\A a \in Account :
       /\ updateGroup(a)
       /\ page[a].text = formatRecipients(page[a].known[page[a].group])
       => groups'[page[a].group].members = page[a].known[page[a].group]]_vars

\* "Only its creator or an administrator changes or deletes it": a form changes a group
\* only if its sender might do so at some time between the headers and the handler, be
\* the page older than the sender's role, and whatever became meanwhile of the role,
\* of the sender's account, and of the group's creator.
Changed(g) == g \in DOMAIN groups' => groups'[g].members # groups[g].members
KeepersOnly ==
  [][\A g \in DOMAIN groups : Changed(g) =>
       \E a \in Account : sent[a] # "no" /\ sent'[a] = "no" /\ g \in could[a]]_vars
=============================================================================
