---------------------------- MODULE PagesProofs -----------------------------
(***************************************************************************)
(* The pages of the client, for any number of tabs, fetches, choices,      *)
(* files, messages and posts: their types, and what each page shows.       *)
(***************************************************************************)
EXTENDS MCPages, Sequences, FiniteSetTheorems, TLAPS


(***************************************************************************)
(* Fetches are numbered by the choices.  While all is calm the page is up, *)
(* and the fetch of the latest choice is in flight with the range due, or  *)
(* nothing is and the page shows that range.                               *)
(***************************************************************************)
Newest(f) == f.n = choices /\ f.range = due

ProductsInv ==
  /\ choices \in Nat
  /\ \A f \in fetches : f.n \in Nat /\ f.n <= choices
  /\ \A f, g \in fetches : f.n = g.n => f = g
  /\ calm => up
  /\ calm => \/ fetches = {} /\ products = <<due>>
             \/ \E f \in fetches : Newest(f)

LEMMA InitProducts == Init => ProductsInv
BY DEF Init, ProductsInv, Newest

(* A choice: the fetch it sends is the newest, and has the range due.      *)
LEMMA ChoiceProducts ==
  ASSUME ProductsInv, NEW range, HandleDateChange(range)
  PROVE  ProductsInv'
<1> DEFINE new == [n |-> choices', range |-> Asked]
<1>1. choices' = choices + 1 /\ fetches' = fetches \cup {new} /\ due' = dates
      /\ calm' = calm /\ up' = up
  BY DEF HandleDateChange
<1>2. \A f \in fetches : f.n < choices'
  BY <1>1 DEF ProductsInv
<1>3. new.n = choices' /\ new.range = due'
  BY <1>1 DEF Asked
<1>4. choices' \in Nat /\ (\A f \in fetches' : f.n \in Nat /\ f.n <= choices')
  BY <1>1, <1>2, <1>3 DEF ProductsInv
<1>5. \A f, g \in fetches' : f.n = g.n => f = g
  BY <1>1, <1>2, <1>3 DEF ProductsInv
<1>6. \E f \in fetches' : Newest(f)'
  BY <1>1, <1>3 DEF Newest
<1>7. calm' => up'
  BY <1>1 DEF ProductsInv
<1> QED BY <1>4, <1>5, <1>6, <1>7 DEF ProductsInv

(* An answer: if no older fetch is in flight, either it is the newest and  *)
(* the only one, or the newest is still to come.                           *)
LEMMA AnswerProducts ==
  ASSUME ProductsInv, NEW f \in fetches, SetProducts(f)
  PROVE  ProductsInv'
<1>1. /\ fetches' = fetches \ {f} /\ choices' = choices /\ due' = due /\ up' = up
      /\ calm' = (calm /\ \A g \in fetches : g.n >= f.n)
      /\ products' = IF up THEN <<f.range>> ELSE products
  BY DEF SetProducts
<1>2. choices' \in Nat /\ (\A g \in fetches' : g.n \in Nat /\ g.n <= choices')
      /\ (\A g, h \in fetches' : g.n = h.n => g = h) /\ (calm' => up')
  BY <1>1 DEF ProductsInv
<1>3. ASSUME calm'
      PROVE  (fetches' = {} /\ products' = <<due'>>) \/ \E g \in fetches' : Newest(g)'
  <2>1. PICK h \in fetches : Newest(h)
    BY <1>1, <1>3 DEF ProductsInv
  <2>2. CASE h = f
    <3>1. \A g \in fetches : g.n <= f.n /\ g.n >= f.n /\ g.n \in Nat /\ f.n \in Nat
      BY <1>1, <1>3, <2>1, <2>2 DEF ProductsInv, Newest
    <3>2. \A g \in fetches : g = f
      BY <3>1 DEF ProductsInv
    <3>3. products' = <<due'>>
      BY <1>1, <1>3, <2>1, <2>2 DEF ProductsInv, Newest
    <3> QED BY <1>1, <3>2, <3>3
  <2>3. CASE h # f
    BY <1>1, <2>1, <2>3 DEF Newest
  <2> QED BY <2>2, <2>3
<1> QED BY <1>2, <1>3 DEF ProductsInv

LEMMA NextProducts == ProductsInv /\ [Next]_vars => ProductsInv'
<1> SUFFICES ASSUME ProductsInv, [Next]_vars PROVE ProductsInv'
  OBVIOUS
<1>1. CASE HandleDateFromChange \/ HandleDateToChange
  BY <1>1, ChoiceProducts DEF HandleDateFromChange, HandleDateToChange
<1>2. ASSUME NEW f \in fetches, SetProducts(f) PROVE ProductsInv'
  BY <1>2, AnswerProducts
<1>3. ASSUME NEW f \in fetches, ProductsRefused(f) PROVE ProductsInv'
  BY <1>3 DEF ProductsRefused, ProductsInv
<1>4. ASSUME NEW f \in fetches, ProductsUnanswered(f) PROVE ProductsInv'
  BY <1>4 DEF ProductsUnanswered, ProductsInv
<1>5. ASSUME UNCHANGED <<up, choices, fetches, products, due, calm>> PROVE ProductsInv'
  BY <1>5 DEF ProductsInv, Newest
<1>6. ASSUME NEW file \in Files, SendFile(file) PROVE ProductsInv'
  BY <1>5, <1>6 DEF SendFile
<1>7. ASSUME NEW u \in uploads, PutFile(u) \/ SetSendFileResult(u) \/ UploadUnanswered(u)
      PROVE  ProductsInv'
  BY <1>5, <1>7 DEF PutFile, SetSendFileResult, UploadUnanswered
<1>8. CASE UNCHANGED vars
  BY <1>5, <1>8 DEF vars
<1> QED BY <1>1, <1>2, <1>3, <1>4, <1>6, <1>7, <1>8 DEF Next

(***************************************************************************)
(* For any number of days and of choices, the products shown are one       *)
(* choice behind the dates of DatePicker, and never more.                  *)
(***************************************************************************)
THEOREM AlwaysOneChoiceBehind == Spec => []OneChoiceBehind
<1>1. ProductsInv => OneChoiceBehind
  BY DEF ProductsInv, OneChoiceBehind
<1> QED BY <1>1, InitProducts, NextProducts, PTL DEF Spec

-----------------------------------------------------------------------------
(* An upload that is known to be stored is on the disk, where files stay.  *)
FileInv ==
  /\ \A u \in uploads : u.stored => u.file \in disk
  /\ result = "text" => fileName \in disk

LEMMA InitFile == Init => FileInv
BY DEF Init, FileInv

LEMMA NextFile == FileInv /\ [Next]_vars => FileInv'
<1> SUFFICES ASSUME FileInv, [Next]_vars PROVE FileInv'
  OBVIOUS
<1>1. ASSUME UNCHANGED <<uploads, disk, result, fileName>> PROVE FileInv'
  BY <1>1 DEF FileInv
<1>2. CASE HandleDateFromChange \/ HandleDateToChange
  BY <1>1, <1>2 DEF HandleDateFromChange, HandleDateToChange, HandleDateChange
<1>3. ASSUME NEW f \in fetches,
             SetProducts(f) \/ ProductsRefused(f) \/ ProductsUnanswered(f)
      PROVE  FileInv'
  BY <1>1, <1>3 DEF SetProducts, ProductsRefused, ProductsUnanswered
<1>4. ASSUME NEW file \in Files, SendFile(file) PROVE FileInv'
  BY <1>4 DEF SendFile, FileInv
<1>5. ASSUME NEW u \in uploads, PutFile(u) PROVE FileInv'
  <2>1. disk' = disk \cup {u.file} /\ UNCHANGED <<result, fileName>>
        /\ uploads' = (uploads \ {u}) \cup {[u EXCEPT !.stored = TRUE]}
    BY <1>5 DEF PutFile
  <2>2. [u EXCEPT !.stored = TRUE].file \in disk'
    BY <2>1
  <2> QED BY <2>1, <2>2 DEF FileInv
<1>6. ASSUME NEW u \in uploads, SetSendFileResult(u) PROVE FileInv'
  BY <1>6 DEF SetSendFileResult, FileInv
<1>7. ASSUME NEW u \in uploads, UploadUnanswered(u) PROVE FileInv'
  BY <1>7 DEF UploadUnanswered, FileInv
<1>8. CASE UNCHANGED vars
  BY <1>1, <1>8 DEF vars
<1> QED BY <1>2, <1>3, <1>4, <1>5, <1>6, <1>7, <1>8 DEF Next

(***************************************************************************)
(* For any uploads, however they overlap, fail or go unanswered, the file  *)
(* that is offered for download is one the server has.                     *)
(***************************************************************************)
THEOREM OfferedFilesWereStored == Spec => []OfferedFileWasStored
<1>1. FileInv => OfferedFileWasStored
  BY DEF FileInv, OfferedFileWasStored
<1> QED BY <1>1, InitFile, NextFile, PTL DEF Spec

-----------------------------------------------------------------------------
(* Days are numbers from a year ago to tomorrow.                           *)
StoreParameters == Today \in Nat \ {0} /\ MaxChoices \in Nat /\ MaxUploads \in Nat

Ranges == {Latest} \cup (Days \X Days)
StoreFetch == [n : 0 .. MaxChoices, range : Ranges]
StoreUpload == [n : 1 .. MaxUploads, file : Files, stored : BOOLEAN]

LEMMA InitStoreTypes == ASSUME StoreParameters PROVE Init => TypeOK
<1> SUFFICES ASSUME Init PROVE TypeOK
  OBVIOUS
<1>1. preview \in BOOLEAN /\ up \in BOOLEAN /\ calm \in BOOLEAN
  BY Zenon DEF Init
<1>2. <<0, Today>> \in Days \X Days /\ <<0, Today + 1>> \in Days \X Days
  BY DEF StoreParameters, Days
<1>3. FirstRange(preview) \in Ranges
  BY <1>2 DEF FirstRange, Ranges
<1>4. [n |-> 0, range |-> FirstRange(preview)] \in StoreFetch
  BY <1>3 DEF StoreFetch, StoreParameters
<1>5. products = <<>> /\ fetches = {[n |-> 0, range |-> FirstRange(preview)]}
        /\ due = FirstRange(preview)
      /\ dates \in Days \X Days
  BY <1>2 DEF Init
<1> QED BY <1>1, <1>3, <1>4, <1>5 DEF Init, TypeOK, Ranges, StoreFetch, StoreParameters

LEMMA ChoiceTypes ==
  ASSUME StoreParameters, TypeOK, HandleDateFromChange \/ HandleDateToChange
  PROVE  TypeOK'
<1>1. dates \in Days \X Days /\ dates[1] \in Days /\ dates[2] \in Days
  BY DEF TypeOK
<1>2. PICK range \in Days \X Days : HandleDateChange(range)
  BY <1>1 DEF HandleDateFromChange, HandleDateToChange
<1> DEFINE f == [n |-> choices', range |-> dates]
<1>3. /\ dates' = range /\ choices' \in 0 .. MaxChoices /\ fetches' = fetches \cup {f}
           /\ due' = dates
      /\ UNCHANGED <<preview, up, products, uploads, sent, result, fileName, disk, calm>>
  BY <1>2 DEF HandleDateChange, Asked, TypeOK, StoreParameters
<1>4. f \in [n : 0 .. MaxChoices, range : {Latest} \cup (Days \X Days)]
  BY <1>1, <1>3
<1> HIDE DEF f
<1> QED BY <1>1, <1>3, <1>4 DEF TypeOK

LEMMA FetchTypes ==
  ASSUME TypeOK, NEW f \in fetches,
         SetProducts(f) \/ ProductsRefused(f) \/ ProductsUnanswered(f)
  PROVE  TypeOK'
<1>1. f.range \in Ranges
  BY DEF TypeOK, Ranges
<1>2. fetches' \subseteq fetches
      /\ UNCHANGED <<preview, dates, choices, uploads, sent, result, fileName, disk, due>>
  BY DEF SetProducts, ProductsRefused, ProductsUnanswered
<1>3. up' \in BOOLEAN
  BY DEF SetProducts, ProductsRefused, ProductsUnanswered, TypeOK
<1>4. calm' \in BOOLEAN
  <2>1. CASE SetProducts(f)
    BY <2>1, Zenon DEF SetProducts
  <2>2. CASE ProductsRefused(f)
    BY <2>2, Zenon DEF ProductsRefused
  <2>3. CASE ProductsUnanswered(f)
    BY <2>3, Zenon DEF ProductsUnanswered
  <2> QED BY <2>1, <2>2, <2>3
<1>5. products' = products \/ products' = <<f.range>>
  BY DEF SetProducts, ProductsRefused, ProductsUnanswered
<1>6. products' \in {<<>>} \cup {<<r>> : r \in Ranges}
  BY <1>1, <1>5 DEF TypeOK, Ranges
<1> QED BY <1>2, <1>3, <1>4, <1>6 DEF TypeOK, Ranges

LEMMA SendFileTypes ==
  ASSUME StoreParameters, TypeOK, NEW file \in Files, SendFile(file)
  PROVE  TypeOK'
<1> DEFINE u == [n |-> sent', file |-> file, stored |-> FALSE]
<1>1. /\ sent' \in 1 .. MaxUploads /\ uploads' = uploads \cup {u}
      /\ UNCHANGED <<preview, up, dates, choices, fetches, products, result, fileName,
           disk, due, calm>>
  BY DEF SendFile, TypeOK, StoreParameters
<1>2. u \in StoreUpload
  BY <1>1 DEF StoreUpload
<1> HIDE DEF u
<1> QED BY <1>1, <1>2 DEF TypeOK, StoreUpload

LEMMA UploadTypes ==
  ASSUME TypeOK, NEW u \in uploads,
         PutFile(u) \/ SetSendFileResult(u) \/ UploadUnanswered(u)
  PROVE  TypeOK'
<1>1. u.file \in Files /\ [u EXCEPT !.stored = TRUE] \in StoreUpload
  BY DEF TypeOK, StoreUpload
<1>2. CASE PutFile(u)
  BY <1>1, <1>2 DEF PutFile, TypeOK, StoreUpload
<1>3. CASE SetSendFileResult(u)
  BY <1>1, <1>3 DEF SetSendFileResult, TypeOK
<1>4. CASE UploadUnanswered(u)
  BY <1>4 DEF UploadUnanswered, TypeOK
<1> QED BY <1>2, <1>3, <1>4

LEMMA NextStoreTypes == ASSUME StoreParameters PROVE TypeOK /\ [Next]_vars => TypeOK'
<1> SUFFICES ASSUME TypeOK, [Next]_vars PROVE TypeOK'
  OBVIOUS
<1>1. CASE UNCHANGED vars
  BY <1>1 DEF vars, TypeOK
<1>2. CASE Next
  BY <1>2, ChoiceTypes, FetchTypes, SendFileTypes, UploadTypes DEF Next
<1> QED BY <1>1, <1>2

(* The variables of Storefront keep their types.                           *)
THEOREM StoreTypesCorrect == ASSUME StoreParameters PROVE Spec => []TypeOK
BY InitStoreTypes, NextStoreTypes, PTL DEF Spec


-----------------------------------------------------------------------------

LoginParameters == MaxLoads \in Nat /\ Tabs # {}

(* The steps that fetch nothing: a mode without a token, and the login.    *)
LoginQuiet ==
  UNCHANGED <<csrf, cookie, loads, asked, lastTab, tidy>>

LoginFetches(t, m) ==
  /\ Login!Load(t, m)
  /\ UNCHANGED <<csrf, cookie>>

LEMMA LoginQuietSteps ==
  ASSUME NEW t \in Tabs, NEW m \in Login!Modes,
         Login!SelectMode(t, m) \/ Login!Submit(t) \/ Login!CsrfGuard(t)
           \/ Login!LoginAnswered(t)
  PROVE  LoginQuiet \/ LoginFetches(t, m)
BY DEF Login!SelectMode, Login!Submit, Login!CsrfGuard, Login!LoginAnswered, LoginQuiet,
   LoginFetches

-----------------------------------------------------------------------------
(* No fetch under way answers the error of another.                        *)
LoginTypes == Login!TypeOK /\ \A l \in loads : l.token # Login!LoadError

LEMMA InitLoginTypes == ASSUME LoginParameters PROVE Login!Init => LoginTypes
<1> SUFFICES ASSUME Login!Init PROVE LoginTypes
  OBVIOUS
<1>1. lastTab \in Tabs
  BY DEF Login!Init, LoginParameters
<1> QED BY <1>1 DEF Login!Init, LoginTypes, Login!TypeOK, LoginParameters, Login!Modes,
           Login!Tokens, Login!Undefined, Login!LoadError

LEMMA NextLoginTypes ==
  ASSUME LoginParameters
  PROVE  LoginTypes /\ [Login!Next]_Login!vars => LoginTypes'
<1> SUFFICES ASSUME LoginTypes, [Login!Next]_Login!vars PROVE LoginTypes'
  OBVIOUS
<1> USE DEF LoginParameters
<1>1. ASSUME NEW t \in Tabs, NEW m \in Login!Modes, Login!SelectMode(t, m) PROVE LoginTypes'
  <2>1. mode' \in [Tabs -> Login!Modes] /\ UNCHANGED <<csrf, cookie, post>>
    BY <1>1 DEF Login!SelectMode, LoginTypes, Login!TypeOK
  <2>2. CASE UNCHANGED <<loads, asked, lastTab, tidy>>
    BY <2>1, <2>2 DEF LoginTypes, Login!TypeOK
  <2>3. CASE Login!Load(t, m)
    <3> DEFINE token == IF m = "csrf" THEN asked' ELSE Login!Md5
               l == [id |-> asked', tab |-> t, step |-> "asked", live |-> TRUE,
                     token |-> token]
    <3>1. asked' \in 1 .. MaxLoads /\ loads' = loads \cup {l}
          /\ lastTab' \in Tabs /\ tidy' \in BOOLEAN
      BY <2>3 DEF Login!Load, LoginTypes, Login!TypeOK
    <3>2. token \in Login!Tokens /\ token # Login!LoadError
      BY <3>1 DEF Login!Tokens, Login!Md5, Login!LoadError
    <3>3. l \in Login!Loads /\ l.token # Login!LoadError
      BY <3>1, <3>2 DEF Login!Loads
    <3> HIDE DEF l
    <3> QED BY <2>1, <3>1, <3>3 DEF LoginTypes, Login!TypeOK
  <2> QED BY <1>1, <2>2, <2>3 DEF Login!SelectMode
<1>2. ASSUME NEW t \in Tabs, Login!Submit(t) \/ Login!CsrfGuard(t) \/ Login!LoginAnswered(t)
      PROVE  LoginTypes'
  <2>1. UNCHANGED <<mode, csrf, cookie, loads, asked, lastTab, tidy>>
    BY <1>2 DEF Login!Submit, Login!CsrfGuard, Login!LoginAnswered
  <2>2. \E p \in {"none", "valid", "invalid", "login", "refused"} :
          post' = [post EXCEPT ![t] = p]
    BY <1>2 DEF Login!Submit, Login!CsrfGuard, Login!LoginAnswered, LoginTypes, Login!TypeOK
  <2> QED BY <2>1, <2>2 DEF LoginTypes, Login!TypeOK
<1>3. ASSUME NEW t \in Tabs, Login!Leave(t) PROVE LoginTypes'
  <2>1. loads' \subseteq Login!Loads /\ \A l \in loads' : l.token # Login!LoadError
    <3>1. CASE loads' = {l \in loads : l.tab # t}
      BY <3>1 DEF LoginTypes, Login!TypeOK
    <3>2. CASE loads' = {[l EXCEPT !.live = @ /\ l.tab # t] : l \in loads}
      <4> SUFFICES ASSUME NEW k \in loads
                   PROVE  LET l == [k EXCEPT !.live = @ /\ k.tab # t] IN
                            l \in Login!Loads /\ l.token # Login!LoadError
        BY <3>2
      <4>1. k \in Login!Loads /\ k.token # Login!LoadError
        BY DEF LoginTypes, Login!TypeOK
      <4>2. (k.live /\ k.tab # t) \in BOOLEAN
        BY Zenon
      <4> QED BY <4>1, <4>2 DEF Login!Loads
    <3> QED BY <1>3, <3>1, <3>2 DEF Login!Leave
  <2> QED BY <1>3, <2>1 DEF Login!Leave, LoginTypes, Login!TypeOK, Login!Modes,
             Login!Tokens, Login!Undefined
<1>4. ASSUME NEW l \in loads, Login!SetCookie(l) PROVE LoginTypes'
  <2>1. l \in Login!Loads /\ l.token \in Login!Tokens \ {Login!LoadError}
    BY DEF LoginTypes, Login!TypeOK, Login!Loads
  <2>2. [l EXCEPT !.step = "cookieSet"] \in Login!Loads
        /\ [l EXCEPT !.step = "cookieSet"].token = l.token
    BY <2>1 DEF Login!Loads
  <2> QED BY <1>4, <2>1, <2>2 DEF Login!SetCookie, LoginTypes, Login!TypeOK
<1>5. ASSUME NEW l \in loads, Login!TokenArrives(l) \/ Login!LoadFails(l) PROVE LoginTypes'
  <2>1. l.tab \in Tabs /\ l.token \in Login!Tokens /\ Login!LoadError \in Login!Tokens
    BY DEF LoginTypes, Login!TypeOK, Login!Loads, Login!Tokens, Login!LoadError
  <2>2. csrf' \in [Tabs -> Login!Tokens]
    BY <1>5, <2>1 DEF Login!TokenArrives, Login!LoadFails, LoginTypes, Login!TypeOK
  <2> QED BY <1>5, <2>2 DEF Login!TokenArrives, Login!LoadFails, LoginTypes, Login!TypeOK
<1>6. CASE UNCHANGED Login!vars
  BY <1>6 DEF Login!vars, LoginTypes, Login!TypeOK
<1> QED BY <1>1, <1>2, <1>3, <1>4, <1>5, <1>6 DEF Login!Next

(* The variables of CsrfLogin keep their types.                            *)
THEOREM LoginTypesCorrect == ASSUME LoginParameters PROVE Login!Spec => []Login!TypeOK
<1>1. LoginTypes => Login!TypeOK
  BY DEF LoginTypes
<1> QED BY <1>1, InitLoginTypes, NextLoginTypes, PTL DEF Login!Spec

-----------------------------------------------------------------------------
(***************************************************************************)
(* As long as fetches are tidy there is one at most, it is of the tab that *)
(* fetched last, and once its cookie is set no other has replaced it; if   *)
(* its form is gone, the tab has no token.                                 *)
(***************************************************************************)
OneLoad == \A l \in loads : loads = {l} /\ l.tab = lastTab
ItsCookie == \A l \in loads : l.step = "cookieSet" => cookie = l.token
LeftForm == \A l \in loads : ~l.live => csrf[lastTab] = Login!Undefined

TidyInv == Login!LastFetchMatches /\ (tidy => OneLoad /\ ItsCookie /\ LeftForm)

LEMMA InitTidy == ASSUME LoginParameters PROVE Login!Init => TidyInv
<1> SUFFICES ASSUME Login!Init PROVE TidyInv
  OBVIOUS
<1>1. csrf[lastTab] = Login!Undefined
  BY DEF Login!Init, LoginParameters
<1> QED BY <1>1 DEF Login!Init, TidyInv, Login!LastFetchMatches, OneLoad, ItsCookie, LeftForm

LEMMA NextTidy == LoginTypes /\ TidyInv /\ [Login!Next]_Login!vars => TidyInv'
<1> SUFFICES ASSUME LoginTypes, TidyInv, [Login!Next]_Login!vars PROVE TidyInv'
  OBVIOUS
<1> USE DEF TidyInv, Login!LastFetchMatches, OneLoad, ItsCookie, LeftForm
<1>1. ASSUME LoginQuiet PROVE TidyInv'
  BY <1>1 DEF LoginQuiet
<1>2. ASSUME NEW t \in Tabs, NEW m \in Login!Modes, LoginFetches(t, m) PROVE TidyInv'
  <2> DEFINE l == [id |-> asked', tab |-> t, step |-> "asked", live |-> TRUE,
                   token |-> IF m = "csrf" THEN asked' ELSE Login!Md5]
  <2>1. loads' = loads \cup {l} /\ lastTab' = t /\ (tidy' => loads = {})
    BY <1>2 DEF LoginFetches, Login!Load
  <2>2. l.tab = t /\ l.step = "asked" /\ l.live
    OBVIOUS
  <2> HIDE DEF l
  <2> QED BY <2>1, <2>2
<1>3. ASSUME NEW t \in Tabs, Login!Leave(t) PROVE TidyInv'
  <2>1. tidy => \A l \in loads' : loads' = {l} /\ \E k \in loads :
                  l.tab = k.tab /\ l.step = k.step /\ l.token = k.token
    <3>1. CASE loads' = {l \in loads : l.tab # t}
      BY <3>1
    <3>2. CASE loads' = {[l EXCEPT !.live = @ /\ l.tab # t] : l \in loads}
      <4> DEFINE Left(k) == [k EXCEPT !.live = @ /\ k.tab # t]
      <4>1. \A k \in loads :
              Left(k).tab = k.tab /\ Left(k).step = k.step /\ Left(k).token = k.token
        BY DEF LoginTypes, Login!TypeOK, Login!Loads
      <4>2. loads' = {Left(k) : k \in loads}
        BY <3>2
      <4> HIDE DEF Left
      <4>3. tidy => \A k \in loads : loads' = {Left(k)}
        BY <4>2
      <4> QED BY <4>1, <4>2, <4>3
    <3> QED BY <1>3, <3>1, <3>2 DEF Login!Leave
  <2>2. UNCHANGED <<cookie, lastTab, tidy>> /\ csrf' = [csrf EXCEPT ![t] = Login!Undefined]
    BY <1>3 DEF Login!Leave
  <2>3. ASSUME tidy, t # lastTab PROVE loads' = loads
    <3>1. \A k \in loads : k.tab # t /\ k \in Login!Loads
      BY <2>3 DEF LoginTypes, Login!TypeOK
    <3> DEFINE Left(k) == [k EXCEPT !.live = @ /\ k.tab # t]
    <3>2. \A k \in loads : Left(k) = k
      BY <3>1 DEF Login!Loads
    <3>3. loads' = {l \in loads : l.tab # t} \/ loads' = {Left(k) : k \in loads}
      BY <1>3 DEF Login!Leave
    <3> HIDE DEF Left
    <3> QED BY <3>1, <3>2, <3>3
  <2>4. t = lastTab => csrf'[lastTab] = Login!Undefined
    BY <2>2 DEF LoginTypes, Login!TypeOK
  <2>5. t # lastTab => csrf'[lastTab] = csrf[lastTab]
    BY <2>2 DEF LoginTypes, Login!TypeOK
  <2>6. tidy => OneLoad' /\ ItsCookie'
    BY <2>1, <2>2
  <2>7. tidy => LeftForm'
    BY <2>2, <2>3, <2>4, <2>5
  <2>8. Login!LastFetchMatches'
    BY <2>2, <2>3, <2>4, <2>5
  <2> QED BY <2>2, <2>6, <2>7, <2>8
<1>4. ASSUME NEW l \in loads, Login!SetCookie(l) PROVE TidyInv'
  <2> DEFINE k == [l EXCEPT !.step = "cookieSet"]
  <2>1. k.tab = l.tab /\ k.token = l.token /\ k.live = l.live
    BY DEF LoginTypes, Login!TypeOK, Login!Loads
  <2>2. loads' = (loads \ {l}) \cup {k} /\ cookie' = l.token
        /\ UNCHANGED <<csrf, lastTab, tidy>>
    BY <1>4 DEF Login!SetCookie
  <2> HIDE DEF k
  <2>3. tidy => loads' = {k}
    BY <2>2
  <2> QED BY <2>1, <2>2, <2>3
<1>5. ASSUME NEW l \in loads, Login!TokenArrives(l) PROVE TidyInv'
  <2>1. loads' = loads \ {l} /\ UNCHANGED <<cookie, lastTab, tidy>> /\ l.step = "cookieSet"
    BY <1>5 DEF Login!TokenArrives
  <2>2. csrf'[l.tab] = IF l.live THEN l.token ELSE csrf[l.tab]
    BY <1>5 DEF Login!TokenArrives, LoginTypes, Login!TypeOK, Login!Loads
  <2>3. tidy => loads' = {} /\ l.tab = lastTab /\ cookie = l.token
    BY <2>1
  <2> QED BY <2>1, <2>2, <2>3
<1>6. ASSUME NEW l \in loads, Login!LoadFails(l) PROVE TidyInv'
  BY <1>6 DEF Login!LoadFails
<1>7. CASE UNCHANGED Login!vars
  BY <1>7 DEF Login!vars
<1>8. ASSUME NEW t \in Tabs, NEW m \in Login!Modes, Login!SelectMode(t, m) PROVE TidyInv'
  BY <1>1, <1>2, <1>8, LoginQuietSteps
<1>9. ASSUME NEW t \in Tabs, Login!Submit(t) \/ Login!CsrfGuard(t) \/ Login!LoginAnswered(t)
      PROVE  TidyInv'
  BY <1>1, <1>9 DEF Login!Submit, Login!CsrfGuard, Login!LoginAnswered, LoginQuiet
<1> QED BY <1>3, <1>4, <1>5, <1>6, <1>7, <1>8, <1>9 DEF Login!Next

(***************************************************************************)
(* For any number of tabs and fetches, the tab that fetched last holds the *)
(* cookie the guard will compare its token with, while fetches are tidy.   *)
(***************************************************************************)
THEOREM LastFetchAlwaysMatches ==
  ASSUME LoginParameters
  PROVE  Login!Spec => []LastFetchMatches
<1>1. TidyInv => LastFetchMatches
  BY DEF TidyInv, LastFetchMatches
<1> QED BY <1>1, InitLoginTypes, NextLoginTypes, InitTidy, NextTidy, PTL DEF Login!Spec

-----------------------------------------------------------------------------
(* The page of testimonials.  A fetch goes out with each answered post and *)
(* one when the page opens, so there are no more than posts and one.       *)
BoardParameters == MaxForms \in Nat /\ MaxPosts \in Nat /\ MaxStored \in Nat

BoardTypes ==
  /\ Board!TypeOK
  /\ IsFiniteSet(posts)
  /\ listed + Cardinality(posts) <= posted + 1

BoardPost == [n : 1 .. MaxPosts, form : 0 .. MaxForms, version : Board!Versions]

LEMMA InitBoardTypes == ASSUME BoardParameters PROVE Board!Init => BoardTypes
<1> SUFFICES ASSUME Board!Init PROVE BoardTypes
  OBVIOUS
<1>1. IsFiniteSet({}) /\ Cardinality({}) = 0
  BY FS_EmptySet
<1>2. inOrder \in BOOLEAN
  BY Zenon DEF Board!Init
<1>3. listings \subseteq [n : 1 .. MaxPosts + 1, version : Board!Versions]
  BY DEF Board!Init, Board!Fetch, Board!Versions, Board!NotYet, Board!Failure,
     BoardParameters
<1> QED BY <1>1, <1>2, <1>3 DEF Board!Init, BoardTypes, Board!TypeOK, BoardParameters,
      Board!Versions, Board!NotYet, Board!Failure, Board!Unset

(* An answered post is off the list, before the fetch it causes.           *)
LEMMA FetchPerPost ==
  ASSUME BoardParameters, BoardTypes, NEW p \in posts
  PROVE  /\ IsFiniteSet(posts \ {p})
         /\ listed + 1 + Cardinality(posts \ {p}) <= posted + 1
         /\ listed + 1 \in 1 .. MaxPosts + 1
<1>1. IsFiniteSet(posts \ {p}) /\ Cardinality(posts \ {p}) = Cardinality(posts) - 1
  BY FS_RemoveElement DEF BoardTypes
<1>2. Cardinality(posts) \in Nat /\ Cardinality(posts \ {p}) \in Nat
  BY <1>1, FS_CardinalityType DEF BoardTypes
<1> QED BY <1>1, <1>2 DEF BoardTypes, Board!TypeOK, BoardParameters

(* A post that takes the place of another.                                 *)
LEMMA PostReplaced ==
  ASSUME BoardParameters, BoardTypes, NEW p \in posts, NEW q
  PROVE  /\ IsFiniteSet((posts \ {p}) \cup {q})
         /\ listed + Cardinality((posts \ {p}) \cup {q}) <= posted + 1
<1> DEFINE rest == posts \ {p}
<1>1. IsFiniteSet(rest) /\ listed + 1 + Cardinality(rest) <= posted + 1
  BY FetchPerPost
<1>2. Cardinality(rest) \in Nat
  BY <1>1, FS_CardinalityType
<1>3. IsFiniteSet(rest \cup {q})
        /\ Cardinality(rest \cup {q}) \in {Cardinality(rest), Cardinality(rest) + 1}
  BY <1>1, FS_AddElement
<1> HIDE DEF rest
<1>4. listed + Cardinality(rest \cup {q}) <= posted + 1
  BY <1>1, <1>2, <1>3 DEF BoardTypes, Board!TypeOK
<1> QED BY <1>3, <1>4 DEF rest

LEMMA NextBoardTypes ==
  ASSUME BoardParameters PROVE BoardTypes /\ [Board!Next]_Board!vars => BoardTypes'
<1> SUFFICES ASSUME BoardTypes, [Board!Next]_Board!vars PROVE BoardTypes'
  OBVIOUS
<1> USE DEF BoardParameters, Board!Versions, Board!NotYet, Board!Failure
<1>1. CASE Board!OnInput
  BY <1>1 DEF Board!OnInput, BoardTypes, Board!TypeOK
<1>2. CASE Board!SendTestimonial
  <2> DEFINE p == [n |-> posted', form |-> form, version |-> Board!NotYet]
  <2>1. posts' = posts \cup {p} /\ posted' = posted + 1 /\ posted' \in 0 .. MaxPosts
        /\ UNCHANGED <<kind, stored, form, forms, latest, listings, listed, shown, own>>
    BY <1>2 DEF Board!SendTestimonial, BoardTypes, Board!TypeOK
  <2>2. inOrder' \in BOOLEAN
    BY <1>2, Zenon DEF Board!SendTestimonial
  <2>3. p \in BoardPost
    BY <2>1 DEF BoardPost, BoardTypes, Board!TypeOK
  <2> HIDE DEF p
  <2>4. IsFiniteSet(posts')
          /\ Cardinality(posts') \in {Cardinality(posts), Cardinality(posts) + 1}
        /\ Cardinality(posts) \in Nat
    BY <2>1, FS_AddElement, FS_CardinalityType DEF BoardTypes
  <2>5. listed' + Cardinality(posts') <= posted' + 1
    BY <2>1, <2>4 DEF BoardTypes, Board!TypeOK
  <2> QED BY <2>1, <2>2, <2>3, <2>4, <2>5 DEF BoardTypes, Board!TypeOK, BoardPost
<1>3. CASE Board!OthersStore
  BY <1>3 DEF Board!OthersStore, BoardTypes, Board!TypeOK
<1>4. ASSUME NEW p \in posts, Board!Store(p) PROVE BoardTypes'
  <2> DEFINE q == [p EXCEPT !.version = stored']
  <2>1. posts' = (posts \ {p}) \cup {q} /\ stored' \in 0 .. MaxStored
        /\ UNCHANGED <<kind, form, forms, posted, latest, listings, listed, shown, own,
             inOrder>>
    BY <1>4 DEF Board!Store, BoardTypes, Board!TypeOK
  <2>2. q \in BoardPost
    BY <2>1 DEF BoardPost, BoardTypes, Board!TypeOK
  <2> HIDE DEF q
  <2>3. IsFiniteSet(posts') /\ listed' + Cardinality(posts') <= posted' + 1
    BY <2>1, PostReplaced
  <2> QED BY <2>1, <2>2, <2>3 DEF BoardTypes, Board!TypeOK, BoardPost
<1>5. ASSUME NEW p \in posts, Board!Posted(p) PROVE BoardTypes'
  <2>1. posts' = posts \ {p} /\ form' = 0 /\ latest' = p.form
        /\ UNCHANGED <<kind, stored, forms, posted, inOrder>>
    BY <1>5 DEF Board!Posted, Board!SetNewTestimonial
  <2>2. p.form \in 0 .. MaxForms /\ p.version \in Board!Versions
    BY DEF BoardTypes, Board!TypeOK
  <2>3. own' \in 0 .. MaxStored
    BY <1>5, <2>2 DEF Board!Posted, BoardTypes, Board!TypeOK
  <2>4. shown' \in Board!Versions
    BY <1>5 DEF Board!Posted, Board!SetNewTestimonial, BoardTypes, Board!TypeOK
  <2>5. listed' \in 1 .. MaxPosts + 1 /\ listed' <= listed + 1
    BY <1>5, FetchPerPost
       DEF Board!Posted, Board!SetNewTestimonial, BoardTypes, Board!TypeOK
  <2>6. listings' \subseteq [n : 1 .. MaxPosts + 1, version : Board!Versions]
    BY <1>5, <2>5
       DEF Board!Posted, Board!SetNewTestimonial, Board!Fetch, BoardTypes, Board!TypeOK
  <2>7. IsFiniteSet(posts') /\ listed' + Cardinality(posts') <= posted' + 1
    <3>1. Cardinality(posts \ {p}) \in Nat
      BY FetchPerPost, FS_CardinalityType
    <3> QED BY <2>1, <2>5, <3>1, FetchPerPost DEF BoardTypes, Board!TypeOK
  <2>8. form' \in 0 .. forms' /\ latest' \in Board!Unset .. MaxForms
    BY <2>1, <2>2 DEF BoardTypes, Board!TypeOK, Board!Unset
  <2> QED BY <2>1, <2>3, <2>4, <2>5, <2>6, <2>7, <2>8 DEF BoardTypes, Board!TypeOK
<1>6. ASSUME NEW p \in posts, Board!PostLost(p) PROVE BoardTypes'
  <2>1. Cardinality(posts \ {p}) \in Nat
    BY FetchPerPost, FS_CardinalityType
  <2>2. IsFiniteSet(posts') /\ listed' + Cardinality(posts') <= posted' + 1
    BY <1>6, <2>1, FetchPerPost DEF Board!PostLost, BoardTypes, Board!TypeOK
  <2> QED BY <1>6, <2>2 DEF Board!PostLost, BoardTypes, Board!TypeOK
<1>7. ASSUME NEW f \in listings, Board!Answer(f) \/ Board!Arrive(f) \/ Board!FetchFails(f)
      PROVE  BoardTypes'
  <2>1. UNCHANGED <<kind, stored, form, forms, posts, posted, latest, listed, own>>
    BY <1>7 DEF Board!Answer, Board!Arrive, Board!FetchFails
  <2>2. f \in [n : 1 .. MaxPosts + 1, version : Board!Versions]
    BY DEF BoardTypes, Board!TypeOK
  <2>3. [f EXCEPT !.version = stored] \in [n : 1 .. MaxPosts + 1, version : Board!Versions]
    BY <2>2 DEF BoardTypes, Board!TypeOK
  <2>4. listings' \subseteq [n : 1 .. MaxPosts + 1, version : Board!Versions]
    BY <1>7, <2>3 DEF Board!Answer, Board!Arrive, Board!FetchFails, BoardTypes, Board!TypeOK
  <2>5. shown' \in Board!Versions
    BY <1>7, <2>2 DEF Board!Answer, Board!Arrive, Board!FetchFails, BoardTypes, Board!TypeOK
  <2>6. inOrder' \in BOOLEAN
    <3>1. CASE Board!Answer(f)
      BY <3>1 DEF Board!Answer, BoardTypes, Board!TypeOK
    <3>2. CASE Board!Arrive(f)
      BY <3>2, Zenon DEF Board!Arrive
    <3>3. CASE Board!FetchFails(f)
      BY <3>3, Zenon DEF Board!FetchFails
    <3> QED BY <1>7, <3>1, <3>2, <3>3
  <2> QED BY <2>1, <2>4, <2>5, <2>6 DEF BoardTypes, Board!TypeOK
<1>8. CASE UNCHANGED Board!vars
  BY <1>8 DEF Board!vars, BoardTypes, Board!TypeOK
<1> QED BY <1>1, <1>2, <1>3, <1>4, <1>5, <1>6, <1>7, <1>8 DEF Board!Next

(* The variables of TestimonialsPage keep their types.                     *)
THEOREM BoardTypesCorrect == ASSUME BoardParameters PROVE Board!Spec => []Board!TypeOK
<1>1. BoardTypes => Board!TypeOK
  BY DEF BoardTypes
<1> QED BY <1>1, InitBoardTypes, NextBoardTypes, PTL DEF Board!Spec

-----------------------------------------------------------------------------
(***************************************************************************)
(* The table only grows.  While all is in order, each form is on its way   *)
(* once and is not the newest testimonial, so that its answer fetches; and *)
(* the newest fetch is in flight, and reads the page's own testimonial, or *)
(* nothing is in flight and the page shows it.                             *)
(***************************************************************************)
StoredInv ==
  /\ own <= stored
  /\ \A p \in posts : p.version <= stored

FormsOnce ==
  /\ \A p \in posts : p.form # latest
  /\ \A p, q \in posts : p.form = q.form => p = q

NewestListing(f) == f.n = listed /\ (f.version = Board!NotYet \/ f.version >= own)

OwnListed ==
  \/ listings = {} /\ shown >= own
  \/ \E f \in listings : NewestListing(f)

OwnInv ==
  /\ StoredInv
  /\ \A f \in listings : f.n <= listed
  /\ \A f, g \in listings : f.n = g.n => f = g
  /\ inOrder => FormsOnce /\ OwnListed

LEMMA InitOwn == Board!Init => OwnInv
BY DEF Board!Init, Board!Fetch, OwnInv, StoredInv, FormsOnce, OwnListed, NewestListing

(* The answer to a post: in order, it is a new form, and a fetch goes out. *)
LEMMA PostedOwn ==
  ASSUME BoardParameters, BoardTypes, OwnInv, NEW p \in posts, Board!Posted(p)
  PROVE  OwnInv'
<1> DEFINE new == Board!Fetch(listed')
<1>1. posts' = posts \ {p} /\ latest' = p.form /\ UNCHANGED <<stored, inOrder>>
  BY DEF Board!Posted, Board!SetNewTestimonial
<1>2. StoredInv'
  BY <1>1 DEF Board!Posted, OwnInv, StoredInv
<1>3. inOrder' => FormsOnce'
  BY <1>1 DEF OwnInv, FormsOnce
<1>4. CASE p.form = latest
  BY <1>1, <1>2, <1>3, <1>4 DEF Board!Posted, Board!SetNewTestimonial, OwnInv, FormsOnce
<1>5. CASE p.form # latest
  <2>1. listed' = listed + 1 /\ listings' = listings \cup {new}
    BY <1>5 DEF Board!Posted, Board!SetNewTestimonial
  <2>2. new.n = listed' /\ new.version = Board!NotYet
    BY DEF Board!Fetch
  <2>3. \A f \in listings : f.n < listed' /\ f.n \in Nat
    BY <2>1 DEF OwnInv, BoardTypes, Board!TypeOK
  <2> HIDE DEF new
  <2>4. \A f \in listings' : f.n <= listed'
    BY <2>1, <2>2, <2>3 DEF BoardTypes, Board!TypeOK
  <2>5. \A f, g \in listings' : f.n = g.n => f = g
    BY <2>1, <2>2, <2>3 DEF OwnInv
  <2>6. OwnListed'
    BY <2>1, <2>2 DEF OwnListed, NewestListing
  <2> QED BY <1>2, <1>3, <2>4, <2>5, <2>6 DEF OwnInv
<1> QED BY <1>4, <1>5

(* A fetch is answered: by a table that has the page's own testimonial.    *)
LEMMA AnswerOwn ==
  ASSUME BoardTypes, OwnInv, NEW f \in listings, Board!Answer(f)
  PROVE  OwnInv'
<1> DEFINE g == [f EXCEPT !.version = stored]
<1>1. listings' = (listings \ {f}) \cup {g}
      /\ UNCHANGED <<stored, posts, latest, listed, shown, own, inOrder>>
  BY DEF Board!Answer
<1>2. g.n = f.n /\ g.version = stored
  BY DEF BoardTypes, Board!TypeOK
<1> HIDE DEF g
<1>3. StoredInv' /\ (inOrder => FormsOnce')
  BY <1>1 DEF OwnInv, StoredInv, FormsOnce
<1>4. inOrder => OwnListed'
  BY <1>1, <1>2 DEF OwnInv, StoredInv, OwnListed, NewestListing
<1> QED BY <1>1, <1>2, <1>3, <1>4 DEF OwnInv

(* The answer arrives: if no older fetch is in flight, the newest is still *)
(* to come, or was the only one.                                           *)
LEMMA ArriveOwn ==
  ASSUME BoardTypes, OwnInv, NEW f \in listings, Board!Arrive(f)
  PROVE  OwnInv'
<1>1. /\ listings' = listings \ {f} /\ shown' = f.version /\ f.version # Board!NotYet
      /\ inOrder' = (inOrder /\ \A g \in listings : g.n >= f.n)
      /\ UNCHANGED <<stored, posts, latest, listed, own>>
  BY DEF Board!Arrive
<1>2. StoredInv' /\ (inOrder' => FormsOnce')
  BY <1>1 DEF OwnInv, StoredInv, FormsOnce
<1>3. ASSUME inOrder' PROVE OwnListed'
  <2>1. PICK h \in listings : NewestListing(h)
    BY <1>1, <1>3 DEF OwnInv, OwnListed
  <2>2. CASE h = f
    <3>1. \A g \in listings : g.n \in Nat
      BY DEF BoardTypes, Board!TypeOK
    <3>2. \A g \in listings : g.n <= f.n /\ g.n >= f.n
      BY <1>1, <1>3, <2>1, <2>2 DEF OwnInv, NewestListing
    <3>3. \A g \in listings : g.n = f.n
      BY <3>1, <3>2
    <3>4. listings' = {}
      BY <1>1, <3>3 DEF OwnInv
    <3> QED BY <1>1, <2>1, <2>2, <3>4 DEF OwnListed, NewestListing
  <2>3. CASE h # f
    BY <1>1, <2>1, <2>3 DEF OwnListed, NewestListing
  <2> QED BY <2>2, <2>3
<1> QED BY <1>1, <1>2, <1>3 DEF OwnInv

LEMMA NextOwn ==
  ASSUME BoardParameters PROVE BoardTypes /\ OwnInv /\ [Board!Next]_Board!vars => OwnInv'
<1> SUFFICES ASSUME BoardTypes, OwnInv, [Board!Next]_Board!vars PROVE OwnInv'
  OBVIOUS
<1> USE DEF OwnInv, StoredInv, FormsOnce, OwnListed, NewestListing
<1>1. CASE Board!OnInput
  BY <1>1 DEF Board!OnInput
<1>2. CASE Board!SendTestimonial
  <2> DEFINE p == [n |-> posted', form |-> form, version |-> Board!NotYet]
  <2>1. posts' = posts \cup {p}
        /\ inOrder' = (inOrder /\ form # latest /\ \A q \in posts : q.form # form)
        /\ UNCHANGED <<stored, latest, listings, listed, shown, own>>
    BY <1>2 DEF Board!SendTestimonial
  <2>2. p.form = form /\ p.version <= stored
    BY DEF Board!NotYet, BoardTypes, Board!TypeOK
  <2> HIDE DEF p
  <2> QED BY <2>1, <2>2
<1>3. CASE Board!OthersStore
  <2>1. \A p \in posts : p.version \in Int
    BY DEF BoardTypes, Board!TypeOK, Board!Versions, Board!Failure
  <2> QED BY <1>3, <2>1 DEF Board!OthersStore, BoardTypes, Board!TypeOK
<1>4. ASSUME NEW p \in posts, Board!Store(p) PROVE OwnInv'
  <2> DEFINE q == [p EXCEPT !.version = stored']
  <2>1. posts' = (posts \ {p}) \cup {q} /\ stored' = stored + 1
        /\ UNCHANGED <<latest, listings, listed, shown, own, inOrder>>
    BY <1>4 DEF Board!Store
  <2>2. q.form = p.form /\ q.version = stored'
    BY DEF BoardTypes, Board!TypeOK
  <2>3. \A r \in posts : r.version \in Int
    BY DEF BoardTypes, Board!TypeOK, Board!Versions, Board!Failure
  <2> HIDE DEF q
  <2>4. StoredInv'
    BY <2>1, <2>2, <2>3 DEF BoardTypes, Board!TypeOK
  <2> QED BY <2>1, <2>2, <2>4
<1>5. ASSUME NEW p \in posts, Board!Posted(p) PROVE OwnInv'
  BY <1>5, PostedOwn
<1>6. ASSUME NEW p \in posts, Board!PostLost(p) PROVE OwnInv'
  BY <1>6 DEF Board!PostLost
<1>7. ASSUME NEW f \in listings, Board!Answer(f) \/ Board!Arrive(f) PROVE OwnInv'
  BY <1>7, AnswerOwn, ArriveOwn
<1>8. ASSUME NEW f \in listings, Board!FetchFails(f) PROVE OwnInv'
  BY <1>8 DEF Board!FetchFails
<1>9. CASE UNCHANGED Board!vars
  BY <1>9 DEF Board!vars
<1> QED BY <1>1, <1>2, <1>3, <1>4, <1>5, <1>6, <1>7, <1>8, <1>9 DEF Board!Next

(***************************************************************************)
(* For any number of forms, posts and testimonials, the list and each      *)
(* count end up no older than the page's own latest testimonial, unless a  *)
(* fetch failed or was overtaken, or a form was sent again.                *)
(***************************************************************************)
THEOREM OwnTestimonialAlwaysShown ==
  ASSUME BoardParameters PROVE Board!Spec => []OwnTestimonialShown
<1>1. OwnInv => OwnTestimonialShown
  BY DEF OwnInv, OwnListed, OwnTestimonialShown, Board!OwnTestimonialShown
<1> QED BY <1>1, InitBoardTypes, NextBoardTypes, InitOwn, NextOwn, PTL DEF Board!Spec

-----------------------------------------------------------------------------
(* The chat.  Messages, queued answers and queries are never more than two *)
(* for each message sent.                                                  *)
WidgetParameters == MaxMessages \in Nat

WidgetTypes ==
  /\ Widget!TypeOK
  /\ chat \in Seq(Widget!Message) /\ queued \in Seq(Widget!Message)
  /\ IsFiniteSet(queries)
  /\ Len(chat) + Len(queued) + Cardinality(queries) <= 2 * messages

LEMMA AppendedAt ==
  ASSUME NEW S, NEW s \in Seq(S), NEW e \in S
  PROVE  /\ Append(s, e) \in Seq(S)
         /\ Len(Append(s, e)) = Len(s) + 1
         /\ \A i \in 1 .. Len(s) : Append(s, e)[i] = s[i]
         /\ Append(s, e)[Len(s) + 1] = e
OBVIOUS

LEMMA JoinedAt ==
  ASSUME NEW S, NEW s \in Seq(S), NEW t \in Seq(S)
  PROVE  /\ s \o t \in Seq(S)
         /\ Len(s \o t) = Len(s) + Len(t)
         /\ \A i \in 1 .. Len(s) : (s \o t)[i] = s[i]
         /\ \A i \in 1 .. Len(t) : (s \o t)[Len(s) + i] = t[i]
OBVIOUS

LEMMA InitWidgetTypes == ASSUME WidgetParameters PROVE Widget!Init => WidgetTypes
<1> SUFFICES ASSUME Widget!Init PROVE WidgetTypes
  OBVIOUS
<1>1. IsFiniteSet({}) /\ Cardinality({}) = 0
  BY FS_EmptySet
<1>2. loading \in BOOLEAN /\ settled \in BOOLEAN
  BY Zenon DEF Widget!Init
<1>3. chat \in Seq(Widget!Message) /\ queued \in Seq(Widget!Message)
      /\ Len(chat) = 0 /\ Len(queued) = 0 /\ DOMAIN chat = {} /\ DOMAIN queued = {}
  BY DEF Widget!Init
<1> QED BY <1>1, <1>2, <1>3 DEF Widget!Init, WidgetTypes, Widget!TypeOK, WidgetParameters

(* What is replaced or answered is one query.                              *)
LEMMA QueryReplaced ==
  ASSUME WidgetTypes, NEW q \in queries
  PROVE  /\ IsFiniteSet(queries \ {q})
         /\ Cardinality(queries \ {q}) + 1 = Cardinality(queries)
         /\ Cardinality(queries) \in Nat /\ Cardinality(queries \ {q}) \in Nat
         /\ \A r : /\ IsFiniteSet((queries \ {q}) \cup {r})
                   /\ Cardinality((queries \ {q}) \cup {r}) \in Nat
                   /\ Cardinality((queries \ {q}) \cup {r}) <= Cardinality(queries)
<1>1. IsFiniteSet(queries \ {q}) /\ Cardinality(queries \ {q}) = Cardinality(queries) - 1
  BY FS_RemoveElement DEF WidgetTypes
<1>2. Cardinality(queries) \in Nat /\ Cardinality(queries \ {q}) \in Nat
  BY <1>1, FS_CardinalityType DEF WidgetTypes
<1>3. ASSUME NEW r
      PROVE  /\ IsFiniteSet((queries \ {q}) \cup {r})
             /\ Cardinality((queries \ {q}) \cup {r}) \in
                  {Cardinality(queries \ {q}), Cardinality(queries \ {q}) + 1}
  BY <1>1, FS_AddElement
<1>4. ASSUME NEW r
      PROVE  /\ Cardinality((queries \ {q}) \cup {r}) \in Nat
             /\ Cardinality((queries \ {q}) \cup {r}) <= Cardinality(queries)
  <2> DEFINE c == Cardinality((queries \ {q}) \cup {r})
  <2>1. c \in {Cardinality(queries \ {q}), Cardinality(queries \ {q}) + 1}
    BY <1>3
  <2> HIDE DEF c
  <2>2. c \in Nat /\ c <= Cardinality(queries)
    BY <1>1, <1>2, <2>1
  <2> QED BY <2>2 DEF c
<1>5. Cardinality(queries \ {q}) + 1 = Cardinality(queries)
  BY <1>1, <1>2
<1> QED BY <1>1, <1>2, <1>3, <1>4, <1>5

LEMMA NextWidgetTypes ==
  ASSUME WidgetParameters PROVE WidgetTypes /\ [Widget!Next]_Widget!vars => WidgetTypes'
<1> SUFFICES ASSUME WidgetTypes, [Widget!Next]_Widget!vars PROVE WidgetTypes'
  OBVIOUS
<1> USE DEF WidgetParameters
<1>1. CASE Widget!SendMessage
  <2> DEFINE m == [role |-> "user", id |-> messages', content |-> "text"]
             q == [id |-> messages', at |-> "server", length |-> Len(chat')]
  <2>1. /\ messages' = messages + 1 /\ messages' \in 1 .. MaxMessages
        /\ chat' = Append(chat, m) /\ queued' = <<>> /\ queries' = queries \cup {q}
        /\ loading' = TRUE /\ settled' = FALSE
        /\ dropped' = dropped \cup {queued[i].id : i \in DOMAIN queued}
    BY <1>1 DEF Widget!SendMessage, WidgetTypes, Widget!TypeOK
  <2>2. m \in Widget!Message
    BY <2>1 DEF Widget!Message, Widget!Ids
  <2>3. Cardinality(queries) \in Nat /\ IsFiniteSet(queries')
        /\ Cardinality(queries') \in {Cardinality(queries), Cardinality(queries) + 1}
    BY <2>1, FS_AddElement, FS_CardinalityType DEF WidgetTypes
  <2> HIDE DEF m
  <2>4. chat' \in Seq(Widget!Message) /\ Len(chat') = Len(chat) + 1 /\ Len(chat) \in Nat
    BY <2>1, <2>2, AppendedAt DEF WidgetTypes
  <2>5. queued' \in Seq(Widget!Message) /\ Len(queued') = 0 /\ DOMAIN queued' = {}
          /\ Len(queued) \in Nat
    BY <2>1 DEF WidgetTypes
  <2>6. Len(chat') + Len(queued') + Cardinality(queries') <= 2 * messages'
    BY <2>1, <2>3, <2>4, <2>5 DEF WidgetTypes, Widget!TypeOK
  <2>7. q \in Widget!Query
    BY <2>1, <2>3, <2>4, <2>5 DEF Widget!Query, Widget!Ids, WidgetTypes, Widget!TypeOK
  <2> HIDE DEF q
  <2>8. dropped' \subseteq Widget!Ids
    BY <2>1 DEF WidgetTypes, Widget!TypeOK, Widget!Message
  <2>9. \A i \in DOMAIN chat' : chat'[i] \in Widget!Message
    BY <2>4
  <2>10. queries' \subseteq Widget!Query
    BY <2>1, <2>7 DEF WidgetTypes, Widget!TypeOK
  <2>11. \A i \in DOMAIN queued' :
           queued'[i] \in Widget!Message /\ queued'[i].role = "assistant"
    BY <2>5
  <2>12. loading' \in BOOLEAN /\ settled' \in BOOLEAN
    BY <2>1, Zenon
  <2>13. messages' \in 0 .. MaxMessages
    BY <2>1
  <2>14. Widget!TypeOK'
    BY <2>8, <2>9, <2>10, <2>11, <2>12, <2>13 DEF Widget!TypeOK
  <2> QED BY <2>3, <2>4, <2>5, <2>6, <2>14 DEF WidgetTypes
<1>2. ASSUME NEW q \in queries, NEW place \in {"api", "answer"}, Widget!Move(q, place)
      PROVE  WidgetTypes'
  <2> DEFINE r == [q EXCEPT !.at = place]
  <2>1. queries' = (queries \ {q}) \cup {r}
        /\ UNCHANGED <<chat, queued, loading, settled, messages, dropped>>
    BY <1>2 DEF Widget!Move
  <2>2. r \in Widget!Query
    BY DEF WidgetTypes, Widget!TypeOK, Widget!Query
  <2> HIDE DEF r
  <2>3. IsFiniteSet(queries') /\ Cardinality(queries') \in Nat
        /\ Cardinality(queries') <= Cardinality(queries) /\ Cardinality(queries) \in Nat
    BY <2>1, QueryReplaced
  <2>4. Len(chat) \in Nat /\ Len(queued) \in Nat
    BY DEF WidgetTypes
  <2> QED BY <2>1, <2>2, <2>3, <2>4 DEF WidgetTypes, Widget!TypeOK
<1>3. ASSUME NEW q \in queries, Widget!QueryChat(q) PROVE WidgetTypes'
  <2>1. PICK content \in {"text", "empty"} :
          queued' = Append(queued, Widget!Reply(q, content))
    BY <1>3 DEF Widget!QueryChat, Widget!Answered
  <2>2. /\ queries' = queries \ {q} /\ settled' = TRUE
        /\ UNCHANGED <<chat, loading, messages, dropped>>
    BY <1>3 DEF Widget!QueryChat, Widget!Answered
  <2> DEFINE m == Widget!Reply(q, content)
  <2>3. m \in Widget!Message /\ m.role = "assistant"
    BY DEF Widget!Reply, Widget!Message, WidgetTypes, Widget!TypeOK, Widget!Query
  <2> HIDE DEF m
  <2>4. queued' = Append(queued, m)
    BY <2>1 DEF m
  <2>5. queued \in Seq(Widget!Message) /\ Len(queued) \in Nat
          /\ DOMAIN queued = 1 .. Len(queued)
        /\ Len(chat) \in Nat
    BY DEF WidgetTypes
  <2>6. /\ queued' \in Seq(Widget!Message) /\ Len(queued') = Len(queued) + 1
        /\ \A i \in 1 .. Len(queued) : queued'[i] = queued[i]
        /\ queued'[Len(queued) + 1] = m
    BY <2>3, <2>4, <2>5, AppendedAt
  <2>7. DOMAIN queued' = 1 .. Len(queued) + 1
    BY <2>6
  <2>8. ASSUME NEW i \in DOMAIN queued'
        PROVE  queued'[i] \in Widget!Message /\ queued'[i].role = "assistant"
    <3>1. CASE i \in 1 .. Len(queued)
      BY <2>5, <2>6, <3>1 DEF WidgetTypes, Widget!TypeOK
    <3>2. CASE i = Len(queued) + 1
      BY <2>3, <2>6, <3>2
    <3> QED BY <2>5, <2>7, <3>1, <3>2
  <2>9. IsFiniteSet(queries') /\ Cardinality(queries') \in Nat
        /\ Cardinality(queries') + 1 = Cardinality(queries)
    BY <2>2, QueryReplaced
  <2>10. Len(chat') + Len(queued') + Cardinality(queries') <= 2 * messages'
    BY <2>2, <2>5, <2>6, <2>9 DEF WidgetTypes, Widget!TypeOK
  <2>11. Widget!TypeOK'
    BY <2>2, <2>8 DEF WidgetTypes, Widget!TypeOK
  <2> QED BY <2>2, <2>6, <2>9, <2>10, <2>11 DEF WidgetTypes
<1>4. CASE Widget!Render
  <2>1. /\ chat' = chat \o queued /\ queued' = <<>> /\ loading' = FALSE /\ settled' = FALSE
        /\ UNCHANGED <<messages, queries, dropped>>
    BY <1>4 DEF Widget!Render
  <2>2. chat' \in Seq(Widget!Message) /\ Len(chat') = Len(chat) + Len(queued)
    BY <2>1, JoinedAt DEF WidgetTypes
  <2>3. queued' \in Seq(Widget!Message) /\ Len(queued') = 0 /\ DOMAIN queued' = {}
    BY <2>1
  <2>4. Len(chat) \in Nat /\ Len(queued) \in Nat /\ Cardinality(queries) \in Nat
    BY FS_CardinalityType DEF WidgetTypes
  <2>5. \A i \in DOMAIN chat' : chat'[i] \in Widget!Message
    BY <2>2
  <2>6. Len(chat') + Len(queued') + Cardinality(queries') <= 2 * messages'
    BY <2>1, <2>2, <2>3, <2>4 DEF WidgetTypes
  <2> QED BY <2>1, <2>2, <2>3, <2>5, <2>6 DEF WidgetTypes, Widget!TypeOK
<1>5. CASE UNCHANGED Widget!vars
  BY <1>5 DEF Widget!vars, WidgetTypes, Widget!TypeOK
<1> QED BY <1>1, <1>2, <1>3, <1>4, <1>5 DEF Widget!Next, Widget!AskApi, Widget!ApiAnswers

(* The variables of ChatWidget keep their types.                           *)
THEOREM WidgetTypesCorrect == ASSUME WidgetParameters PROVE Widget!Spec => []Widget!TypeOK
<1>1. WidgetTypes => Widget!TypeOK
  BY DEF WidgetTypes
<1> QED BY <1>1, InitWidgetTypes, NextWidgetTypes, PTL DEF Widget!Spec

-----------------------------------------------------------------------------
(***************************************************************************)
(* The list as it will be rendered.  Its messages of the user are those    *)
(* sent, in their order; and each has had one fate: its query is in        *)
(* flight, or its answer is in the list below it, or it was dropped.       *)
(***************************************************************************)
Conversation == chat \o queued
Places == 1 .. Len(Conversation)

UserAt(i, n) == Conversation[i].role = "user" /\ Conversation[i].id = n
AnswerAt(i, n) == Conversation[i].role = "assistant" /\ Conversation[i].id = n

UsersKept ==
  /\ \A i \in Places, n \in Nat : UserAt(i, n) => n \in 1 .. messages
  /\ \A n \in 1 .. messages : \E i \in Places : UserAt(i, n)
  /\ \A i, j \in Places, m, n \in Nat : UserAt(i, m) /\ UserAt(j, n) /\ i < j => m < n

QueriesOnce ==
  /\ \A q \in queries : q.id \in 1 .. messages
  /\ \A q, r \in queries : q.id = r.id => q = r

AnswersOnce ==
  /\ \A i \in Places, n \in Nat : AnswerAt(i, n) => n \in 1 .. messages
  /\ \A i, j \in Places, n \in Nat : AnswerAt(i, n) /\ AnswerAt(j, n) => i = j
  /\ \A i \in Places, n \in Nat : AnswerAt(i, n) => \E j \in Places : j <= i /\ UserAt(j, n)

Waiting(n) == \E q \in queries : q.id = n
Replied(n) == \E i \in Places : AnswerAt(i, n)

OneFate ==
  /\ dropped \subseteq 1 .. messages
  /\ \A n \in 1 .. messages :
       /\ Waiting(n) \/ Replied(n) \/ n \in dropped
       /\ ~(Waiting(n) /\ Replied(n))
       /\ ~(Waiting(n) /\ n \in dropped)
       /\ ~(Replied(n) /\ n \in dropped)

LoadingInv == loading => queries # {} \/ settled

ChatInv == UsersKept /\ QueriesOnce /\ AnswersOnce /\ OneFate /\ LoadingInv

LEMMA ConversationAt ==
  ASSUME WidgetTypes
  PROVE  /\ Conversation \in Seq(Widget!Message)
         /\ Len(chat) \in Nat /\ Len(queued) \in Nat
         /\ Len(Conversation) = Len(chat) + Len(queued)
         /\ \A i \in 1 .. Len(chat) : Conversation[i] = chat[i]
         /\ \A i \in 1 .. Len(queued) : Conversation[Len(chat) + i] = queued[i]
BY JoinedAt DEF WidgetTypes, Conversation

(* What is queued are answers: the user's messages have been rendered.     *)
LEMMA UsersRendered ==
  ASSUME WidgetTypes, NEW i \in Places, Conversation[i].role = "user"
  PROVE  i \in 1 .. Len(chat)
<1> SUFFICES ASSUME i \notin 1 .. Len(chat) PROVE Conversation[i].role = "assistant"
  OBVIOUS
<1>1. DOMAIN queued = 1 .. Len(queued)
  BY DEF WidgetTypes
<1>2. i - Len(chat) \in 1 .. Len(queued)
        /\ Conversation[Len(chat) + (i - Len(chat))] = queued[i - Len(chat)]
  BY ConversationAt DEF Places
<1>3. Len(chat) + (i - Len(chat)) = i
  BY ConversationAt DEF Places
<1> QED BY <1>1, <1>2, <1>3 DEF WidgetTypes, Widget!TypeOK

(* A new message follows what was rendered; what was queued is gone.       *)
LEMMA SendConversation ==
  ASSUME WidgetTypes, Widget!SendMessage, WidgetParameters
  PROVE  /\ Len(chat) \in Nat /\ 1 .. Len(chat) \subseteq Places
         /\ Places' = 1 .. Len(chat) + 1
         /\ \A i \in 1 .. Len(chat) : Conversation'[i] = Conversation[i]
         /\ Conversation'[Len(chat) + 1].role = "user"
         /\ Conversation'[Len(chat) + 1].id = messages + 1
         /\ messages' = messages + 1
<1> DEFINE m == [role |-> "user", id |-> messages', content |-> "text"]
<1>1. chat' = Append(chat, m) /\ queued' = <<>> /\ messages' = messages + 1
        /\ messages < MaxMessages
  BY DEF Widget!SendMessage
<1>2. m \in Widget!Message
  BY <1>1 DEF Widget!Message, Widget!Ids, WidgetTypes, Widget!TypeOK, WidgetParameters
<1>3. m.role = "user" /\ m.id = messages + 1
  BY <1>1
<1> HIDE DEF m
<1>4. /\ chat' \in Seq(Widget!Message) /\ Len(chat') = Len(chat) + 1
      /\ \A i \in 1 .. Len(chat) : chat'[i] = chat[i]
      /\ chat'[Len(chat) + 1] = m
  BY <1>1, <1>2, AppendedAt DEF WidgetTypes
<1>5. Conversation' = chat'
  BY <1>1, <1>4 DEF Conversation
<1> QED BY <1>1, <1>3, <1>4, <1>5, ConversationAt DEF Places

(* An answer goes to the end.                                              *)
LEMMA AnswerConversation ==
  ASSUME WidgetTypes, NEW q \in queries, Widget!QueryChat(q)
  PROVE  /\ Len(Conversation) \in Nat
         /\ Places' = 1 .. Len(Conversation) + 1
         /\ \A i \in Places : Conversation'[i] = Conversation[i]
         /\ Conversation'[Len(Conversation) + 1].role = "assistant"
         /\ Conversation'[Len(Conversation) + 1].id = q.id
<1>1. PICK content \in {"text", "empty"} :
        queued' = Append(queued, Widget!Reply(q, content)) /\ chat' = chat
  BY DEF Widget!QueryChat, Widget!Answered
<1> DEFINE m == Widget!Reply(q, content)
<1>2. m \in Widget!Message /\ m.role = "assistant" /\ m.id = q.id
  BY DEF Widget!Reply, Widget!Message, WidgetTypes, Widget!TypeOK, Widget!Query
<1> HIDE DEF m
<1>3. queued' = Append(queued, m) /\ chat' = chat
  BY <1>1 DEF m
<1>4. chat \in Seq(Widget!Message) /\ queued \in Seq(Widget!Message)
  BY DEF WidgetTypes
<1>5. Conversation' = Append(Conversation, m)
  BY <1>2, <1>3, <1>4 DEF Conversation
<1>6. Conversation \in Seq(Widget!Message)
  BY ConversationAt
<1> QED BY <1>2, <1>5, <1>6, AppendedAt DEF Places

LEMMA SameConversation ==
  ASSUME Conversation' = Conversation, messages' = messages, dropped' = dropped
  PROVE  /\ UsersKept => UsersKept'
         /\ AnswersOnce => AnswersOnce'
         /\ \A n : Replied(n)' <=> Replied(n)
BY DEF UsersKept, AnswersOnce, Replied, Places, UserAt, AnswerAt

LEMMA InitChat == ASSUME WidgetParameters PROVE Widget!Init => ChatInv
<1> SUFFICES ASSUME Widget!Init PROVE ChatInv
  OBVIOUS
<1>1. Conversation = <<>>
  BY DEF Widget!Init, Conversation
<1>2. Places = {} /\ messages = 0 /\ queries = {} /\ dropped = {} /\ loading = FALSE
  BY <1>1 DEF Places, Widget!Init
<1> QED BY <1>2 DEF ChatInv, UsersKept, QueriesOnce, AnswersOnce, OneFate, LoadingInv

LEMMA SendChat ==
  ASSUME WidgetParameters, WidgetTypes, ChatInv, Widget!SendMessage
  PROVE  ChatInv'
<1> DEFINE q == [id |-> messages', at |-> "server", length |-> Len(chat')]
<1> PICK last \in Nat : last = Len(chat) + 1
  BY ConversationAt
<1>1. /\ queries' = queries \cup {q} /\ messages' = messages + 1 /\ messages \in Nat
      /\ dropped' = dropped \cup {queued[i].id : i \in DOMAIN queued}
  BY DEF Widget!SendMessage, WidgetTypes, Widget!TypeOK, WidgetParameters
<1>2. q.id = messages + 1
  BY <1>1
<1> HIDE DEF q
<1>3. ASSUME NEW i \in 1 .. Len(chat)
      PROVE  i \in Places /\ \A n \in Nat :
               (UserAt(i, n)' <=> UserAt(i, n)) /\ (AnswerAt(i, n)' <=> AnswerAt(i, n))
  <2>1. i \in Places /\ Conversation'[i] = Conversation[i]
    BY SendConversation
  <2> QED BY <2>1 DEF UserAt, AnswerAt
<1>4. \A n \in Nat : (UserAt(last, n)' <=> n = messages + 1) /\ ~AnswerAt(last, n)'
  BY SendConversation DEF UserAt, AnswerAt
<1>5. Places' = 1 .. last /\ Len(chat) \in Nat
  BY SendConversation
<1>6. \A i \in DOMAIN queued : /\ Len(chat) + i \in Places /\ i \in Nat /\ i > 0
                               /\ queued[i].id \in Nat
                               /\ AnswerAt(Len(chat) + i, queued[i].id)
  <2>1. DOMAIN queued = 1 .. Len(queued)
    BY DEF WidgetTypes
  <2>2. ASSUME NEW i \in DOMAIN queued
        PROVE  /\ Len(chat) + i \in Places /\ i \in Nat /\ i > 0
               /\ Conversation[Len(chat) + i] = queued[i]
    BY <2>1, <2>2, ConversationAt DEF Places
  <2>3. \A i \in DOMAIN queued : queued[i].role = "assistant" /\ queued[i].id \in Nat
    BY DEF WidgetTypes, Widget!TypeOK, Widget!Message, Widget!Ids
  <2> QED BY <2>2, <2>3 DEF AnswerAt
<1>7. \A i \in Places, n \in Nat : UserAt(i, n) => i \in 1 .. Len(chat)
  BY UsersRendered DEF UserAt
<1>8. UsersKept'
  <2>1. \A i \in Places', n \in Nat : UserAt(i, n)' => n \in 1 .. messages'
    BY <1>1, <1>3, <1>4, <1>5 DEF ChatInv, UsersKept
  <2>2. \A n \in 1 .. messages' : \E i \in Places' : UserAt(i, n)'
    <3> TAKE n \in 1 .. messages'
    <3>1. CASE n = messages + 1
      BY <1>1, <1>4, <1>5, <3>1
    <3>2. CASE n \in 1 .. messages
      <4>1. PICK i \in Places : UserAt(i, n)
        BY <3>2 DEF ChatInv, UsersKept
      <4>2. i \in 1 .. Len(chat)
        BY <1>7, <4>1
      <4> QED BY <1>3, <1>5, <4>1, <4>2
    <3> QED BY <1>1, <3>1, <3>2
  <2>3. ASSUME NEW i \in Places', NEW j \in Places', NEW m \in Nat, NEW n \in Nat,
               UserAt(i, m)', UserAt(j, n)', i < j
        PROVE  m < n
    <3>1. i \in 1 .. Len(chat) /\ UserAt(i, m)
      BY <1>3, <1>5, <2>3
    <3>2. m \in 1 .. messages
      BY <1>3, <3>1 DEF ChatInv, UsersKept
    <3>3. CASE j = last
      BY <1>1, <1>4, <2>3, <3>2, <3>3
    <3>4. CASE j \in 1 .. Len(chat)
      BY <1>3, <2>3, <3>1, <3>4 DEF ChatInv, UsersKept
    <3> QED BY <1>5, <3>3, <3>4
  <2> QED BY <2>1, <2>2, <2>3 DEF UsersKept
<1>9. QueriesOnce'
  BY <1>1, <1>2 DEF ChatInv, QueriesOnce
<1>10. AnswersOnce'
  <2>1. \A i \in Places', n \in Nat :
          AnswerAt(i, n)' => i \in 1 .. Len(chat) /\ AnswerAt(i, n)
    BY <1>3, <1>4, <1>5
  <2>2. \A i \in Places', n \in Nat : AnswerAt(i, n)' => n \in 1 .. messages'
    BY <1>1, <1>3, <2>1 DEF ChatInv, AnswersOnce
  <2>3. \A i, j \in Places', n \in Nat : AnswerAt(i, n)' /\ AnswerAt(j, n)' => i = j
    BY <1>3, <2>1 DEF ChatInv, AnswersOnce
  <2>4. ASSUME NEW i \in Places', NEW n \in Nat, AnswerAt(i, n)'
        PROVE  \E j \in Places' : j <= i /\ UserAt(j, n)'
    <3>1. PICK j \in Places : j <= i /\ UserAt(j, n)
      BY <1>3, <2>1, <2>4 DEF ChatInv, AnswersOnce
    <3>2. j \in 1 .. Len(chat)
      BY <1>7, <3>1
    <3> QED BY <1>3, <1>5, <3>1, <3>2
  <2> QED BY <2>2, <2>3, <2>4 DEF AnswersOnce
<1>11. OneFate'
  <2>1. \A n \in Nat : Waiting(n)' <=> Waiting(n) \/ n = messages + 1
    BY <1>1, <1>2 DEF Waiting
  <2>2. \A n \in Nat : n \in dropped' <=>
          n \in dropped \/ \E i \in DOMAIN queued : AnswerAt(Len(chat) + i, n)
    BY <1>1, <1>6 DEF AnswerAt
  <2>3. \A n \in Nat : Replied(n)' <=> \E i \in 1 .. Len(chat) : AnswerAt(i, n)
    BY <1>3, <1>4, <1>5 DEF Replied
  <2>4. \A n \in Nat : Replied(n) <=>
          Replied(n)' \/ \E i \in DOMAIN queued : AnswerAt(Len(chat) + i, n)
    <3>1. ASSUME NEW n \in Nat, NEW i \in Places, AnswerAt(i, n), i \notin 1 .. Len(chat)
          PROVE  \E k \in DOMAIN queued : AnswerAt(Len(chat) + k, n)
      <4>1. i - Len(chat) \in DOMAIN queued /\ Len(chat) + (i - Len(chat)) = i
        BY <3>1, ConversationAt DEF Places, WidgetTypes
      <4> QED BY <3>1, <4>1
    <3> QED BY <1>3, <1>6, <2>3, <3>1 DEF Replied
  <2>5. ASSUME NEW n \in Nat
        PROVE  ~(Replied(n)' /\ \E i \in DOMAIN queued : AnswerAt(Len(chat) + i, n))
    BY <1>3, <1>5, <1>6, <2>3 DEF ChatInv, AnswersOnce
  <2>6. \A n \in Nat : Waiting(n) \/ Replied(n) \/ n \in dropped => n \in 1 .. messages
    BY <1>1 DEF ChatInv, QueriesOnce, AnswersOnce, OneFate, Waiting, Replied
  <2>7. dropped' \subseteq 1 .. messages'
    <3>1. ASSUME NEW n \in dropped' PROVE n \in Nat
      <4>1. CASE n \in dropped
        BY <1>1, <4>1 DEF ChatInv, OneFate
      <4>2. CASE n \in {queued[i].id : i \in DOMAIN queued}
        BY <1>6, <4>2
      <4> QED BY <1>1, <3>1, <4>1, <4>2
    <3>2. \A n \in dropped' : n \in dropped \/ Replied(n)
      BY <2>2, <2>4, <3>1
    <3> QED BY <1>1, <2>6, <3>1, <3>2
  <2>8. ASSUME NEW n \in 1 .. messages'
        PROVE  /\ Waiting(n)' \/ Replied(n)' \/ n \in dropped'
               /\ ~(Waiting(n)' /\ Replied(n)')
               /\ ~(Waiting(n)' /\ n \in dropped')
               /\ ~(Replied(n)' /\ n \in dropped')
    <3>1. CASE n = messages + 1
      <4>1. ~Replied(n) /\ ~(n \in dropped) /\ n \in Nat
        BY <1>1, <2>6, <3>1
      <4> QED BY <2>1, <2>2, <2>4, <3>1, <4>1
    <3>2. CASE n \in 1 .. messages
      <4>1. n \in Nat /\ n # messages + 1
        BY <1>1, <3>2
      <4>2. /\ Waiting(n) \/ Replied(n) \/ n \in dropped
            /\ ~(Waiting(n) /\ Replied(n))
            /\ ~(Waiting(n) /\ n \in dropped)
            /\ ~(Replied(n) /\ n \in dropped)
        BY <3>2 DEF ChatInv, OneFate
      <4> QED BY <2>1, <2>2, <2>4, <2>5, <4>1, <4>2
    <3> QED BY <1>1, <3>1, <3>2
  <2> QED BY <2>7, <2>8 DEF OneFate
<1>12. LoadingInv'
  BY <1>1 DEF LoadingInv
<1> QED BY <1>8, <1>9, <1>10, <1>11, <1>12 DEF ChatInv

LEMMA AnswerChat ==
  ASSUME WidgetParameters, WidgetTypes, ChatInv, NEW q \in queries, Widget!QueryChat(q)
  PROVE  ChatInv'
<1> PICK last \in Nat : last = Len(Conversation) + 1
  BY AnswerConversation
<1>1. /\ queries' = queries \ {q} /\ settled' = TRUE
      /\ messages' = messages /\ dropped' = dropped /\ chat' = chat
  BY DEF Widget!QueryChat, Widget!Answered
<1>2. q.id \in 1 .. messages /\ q.id \in Nat /\ messages \in Nat
  BY DEF ChatInv, QueriesOnce, WidgetTypes, Widget!TypeOK, WidgetParameters
<1>3. \A i \in Places, n \in Nat :
        (UserAt(i, n)' <=> UserAt(i, n)) /\ (AnswerAt(i, n)' <=> AnswerAt(i, n))
  BY AnswerConversation DEF UserAt, AnswerAt
<1>4. \A n \in Nat : ~UserAt(last, n)' /\ (AnswerAt(last, n)' <=> n = q.id)
  BY AnswerConversation DEF UserAt, AnswerAt
<1>5. Places' = Places \cup {last} /\ Len(Conversation) \in Nat
      /\ \A i \in Places : i < last /\ i \in Nat
  BY AnswerConversation DEF Places
<1>6. UsersKept'
  <2>1. \A i \in Places', n \in Nat : UserAt(i, n)' => i \in Places /\ UserAt(i, n)
    BY <1>3, <1>4, <1>5
  <2>2. \A n \in 1 .. messages' : \E i \in Places' : UserAt(i, n)'
    BY <1>1, <1>2, <1>3, <1>5 DEF ChatInv, UsersKept
  <2> QED BY <1>1, <1>3, <2>1, <2>2 DEF ChatInv, UsersKept
<1>7. QueriesOnce'
  BY <1>1 DEF ChatInv, QueriesOnce
<1>8. \A n \in Nat : Replied(n)' <=> Replied(n) \/ n = q.id
  BY <1>3, <1>4, <1>5 DEF Replied
<1>9. \A n \in Nat : Waiting(n) <=> Waiting(n)' \/ n = q.id
  BY <1>1, <1>2 DEF Waiting
<1>10. ~Waiting(q.id)' /\ ~Replied(q.id) /\ q.id \notin dropped
  BY <1>1, <1>2 DEF ChatInv, QueriesOnce, OneFate, Waiting
<1>11. AnswersOnce'
  <2>1. \A i \in Places', n \in Nat : AnswerAt(i, n)' => n \in 1 .. messages'
    BY <1>1, <1>2, <1>3, <1>4, <1>5 DEF ChatInv, AnswersOnce
  <2>2. ASSUME NEW i \in Places', NEW j \in Places', NEW n \in Nat, AnswerAt(i, n)',
               AnswerAt(j, n)'
        PROVE  i = j
    <3>1. i = last <=> n = q.id
      BY <1>3, <1>4, <1>5, <1>10, <2>2 DEF Replied
    <3>2. j = last <=> n = q.id
      BY <1>3, <1>4, <1>5, <1>10, <2>2 DEF Replied
    <3> QED BY <1>3, <1>5, <2>2, <3>1, <3>2 DEF ChatInv, AnswersOnce
  <2>3. ASSUME NEW i \in Places', NEW n \in Nat, AnswerAt(i, n)'
        PROVE  \E j \in Places' : j <= i /\ UserAt(j, n)'
    <3>1. CASE i = last
      <4>1. PICK j \in Places : UserAt(j, q.id)
        BY <1>2 DEF ChatInv, UsersKept
      <4> QED BY <1>2, <1>3, <1>4, <1>5, <2>3, <3>1, <4>1
    <3>2. CASE i \in Places
      BY <1>3, <1>5, <2>3, <3>2 DEF ChatInv, AnswersOnce
    <3> QED BY <1>5, <3>1, <3>2
  <2> QED BY <2>1, <2>2, <2>3 DEF AnswersOnce
<1>12. OneFate'
  <2>1. \A n \in 1 .. messages : n \in Nat
    BY <1>2
  <2> QED BY <1>1, <1>8, <1>9, <1>10, <2>1 DEF ChatInv, OneFate
<1>13. LoadingInv'
  BY <1>1 DEF LoadingInv
<1> QED BY <1>6, <1>7, <1>11, <1>12, <1>13 DEF ChatInv

LEMMA NextChat ==
  ASSUME WidgetParameters
  PROVE  WidgetTypes /\ ChatInv /\ [Widget!Next]_Widget!vars => ChatInv'
<1> SUFFICES ASSUME WidgetTypes, ChatInv, [Widget!Next]_Widget!vars PROVE ChatInv'
  OBVIOUS
<1>1. CASE Widget!SendMessage
  BY <1>1, SendChat
<1>2. ASSUME NEW q \in queries, Widget!QueryChat(q) PROVE ChatInv'
  BY <1>2, AnswerChat
<1>3. ASSUME NEW q \in queries, NEW place, Widget!Move(q, place) PROVE ChatInv'
  <2> DEFINE r == [q EXCEPT !.at = place]
  <2>1. queries' = (queries \ {q}) \cup {r}
        /\ UNCHANGED <<chat, queued, loading, settled, messages, dropped>>
    BY <1>3 DEF Widget!Move
  <2>2. r.id = q.id
    BY DEF WidgetTypes, Widget!TypeOK, Widget!Query
  <2> HIDE DEF r
  <2>3. Conversation' = Conversation
    BY <2>1 DEF Conversation
  <2>4. QueriesOnce' /\ LoadingInv' /\ \A n : Waiting(n)' <=> Waiting(n)
    BY <2>1, <2>2 DEF ChatInv, QueriesOnce, LoadingInv, Waiting
  <2>5. OneFate'
    BY <2>1, <2>3, <2>4, SameConversation DEF ChatInv, OneFate
  <2> QED BY <2>1, <2>3, <2>4, <2>5, SameConversation DEF ChatInv
<1>4. CASE Widget!Render
  <2>1. /\ chat' = chat \o queued /\ queued' = <<>> /\ loading' = FALSE
        /\ UNCHANGED <<messages, queries, dropped>>
    BY <1>4 DEF Widget!Render
  <2>2. Conversation' = Conversation
    BY <2>1, ConversationAt DEF Conversation
  <2>3. QueriesOnce' /\ LoadingInv' /\ \A n : Waiting(n)' <=> Waiting(n)
    BY <2>1 DEF ChatInv, QueriesOnce, LoadingInv, Waiting
  <2>4. OneFate'
    BY <2>1, <2>2, <2>3, SameConversation DEF ChatInv, OneFate
  <2> QED BY <2>1, <2>2, <2>3, <2>4, SameConversation DEF ChatInv
<1>5. CASE UNCHANGED Widget!vars
  <2>1. UNCHANGED <<chat, queued, loading, settled, messages, queries, dropped>>
    BY <1>5 DEF Widget!vars
  <2>2. Conversation' = Conversation
    BY <2>1 DEF Conversation
  <2>3. QueriesOnce' /\ LoadingInv' /\ \A n : Waiting(n)' <=> Waiting(n)
    BY <2>1 DEF ChatInv, QueriesOnce, LoadingInv, Waiting
  <2>4. OneFate'
    BY <2>1, <2>2, <2>3, SameConversation DEF ChatInv, OneFate
  <2> QED BY <2>1, <2>2, <2>3, <2>4, SameConversation DEF ChatInv
<1> QED BY <1>1, <1>2, <1>3, <1>4, <1>5 DEF Widget!Next, Widget!AskApi, Widget!ApiAnswers

(* What a set holds at most one of is counted one or zero.                 *)
LEMMA AtMostOne ==
  ASSUME NEW S, \A x, y \in S : x = y
  PROVE  Widget!Cardinality(S) = IF S = {} THEN 0 ELSE 1
<1>1. Widget!Cardinality(S) = Cardinality(S)
  BY Zenon DEF Widget!Cardinality, Cardinality
<1>2. CASE S = {}
  BY <1>1, <1>2, FS_EmptySet
<1>3. CASE S # {}
  <2>1. PICK x : S = {x}
    BY <1>3
  <2> QED BY <1>1, <1>3, <2>1, FS_Singleton
<1> QED BY <1>2, <1>3

LEMMA ChatInvImplies == ASSUME WidgetTypes, ChatInv PROVE ChatKeepsUp
<1>1. \A i \in Places : i \in Nat /\ Conversation[i].id \in Nat
  <2>1. \A i \in Places : Conversation[i] \in Widget!Message
    BY ConversationAt DEF Places
  <2> QED BY <2>1, ConversationAt DEF Places, Widget!Message, Widget!Ids
<1>2. DOMAIN chat = 1 .. Len(chat) /\ DOMAIN Conversation = Places
  BY ConversationAt DEF WidgetTypes, Places
<1>3. \A i \in 1 .. Len(chat) : i \in Places /\ chat[i] = Conversation[i]
  BY ConversationAt DEF Places
<1>4. \A i \in Places : Conversation[i].role = "user" => i \in 1 .. Len(chat)
  BY UsersRendered
<1>5. Widget!From("user", chat) = {i \in Places : Conversation[i].role = "user"}
  BY <1>2, <1>3, <1>4 DEF Widget!From
<1>6. {chat[i].id : i \in Widget!From("user", chat)} = 1 .. messages
  <2>1. ASSUME NEW n \in 1 .. messages
        PROVE  \E i \in Widget!From("user", chat) : chat[i].id = n
    BY <1>3, <1>4, <1>5 DEF ChatInv, UsersKept, UserAt
  <2>2. ASSUME NEW i \in Widget!From("user", chat) PROVE chat[i].id \in 1 .. messages
    BY <1>1, <1>3, <1>4, <1>5 DEF ChatInv, UsersKept, UserAt
  <2> QED BY <2>1, <2>2
<1>7. ASSUME NEW i \in Widget!From("user", chat), NEW j \in Widget!From("user", chat), i < j
      PROVE  chat[i].id < chat[j].id
  BY <1>1, <1>3, <1>4, <1>5, <1>7 DEF ChatInv, UsersKept, UserAt
<1>8. ASSUME NEW n \in 1 .. messages
      PROVE  LET s == {i \in Widget!From("assistant", Conversation) :
                         Conversation[i].id = n}
                 open == {q \in queries : q.id = n}
             IN /\ Widget!Cardinality(s) + Widget!Cardinality(open)
                     + (IF n \in dropped THEN 1 ELSE 0) = 1
                /\ \A i \in s : \E j \in 1 .. i :
                     Conversation[j].role = "user" /\ Conversation[j].id = n
  <2> DEFINE s == {i \in Widget!From("assistant", Conversation) : Conversation[i].id = n}
             open == {q \in queries : q.id = n}
  <2>1. n \in Nat
    BY DEF WidgetTypes, Widget!TypeOK
  <2>2. s = {i \in Places : AnswerAt(i, n)}
    BY <1>2 DEF Widget!From, AnswerAt
  <2>3. Widget!Cardinality(s) = IF Replied(n) THEN 1 ELSE 0
    <3>1. \A x, y \in s : x = y
      BY <2>1, <2>2 DEF ChatInv, AnswersOnce
    <3>2. s = {} <=> ~Replied(n)
      BY <2>2 DEF Replied
    <3> HIDE DEF s
    <3> QED BY <3>1, <3>2, AtMostOne
  <2>4. Widget!Cardinality(open) = IF Waiting(n) THEN 1 ELSE 0
    <3>1. \A x, y \in open : x = y
      BY DEF ChatInv, QueriesOnce
    <3>2. open = {} <=> ~Waiting(n)
      BY DEF Waiting
    <3> HIDE DEF open
    <3> QED BY <3>1, <3>2, AtMostOne
  <2>5. ASSUME NEW i \in s
        PROVE  \E j \in 1 .. i : Conversation[j].role = "user" /\ Conversation[j].id = n
    <3>1. PICK j \in Places : j <= i /\ UserAt(j, n)
      BY <2>1, <2>2, <2>5 DEF ChatInv, AnswersOnce
    <3>2. j \in 1 .. i
      BY <1>1, <2>2, <2>5, <3>1, ConversationAt DEF Places
    <3> QED BY <3>1, <3>2 DEF UserAt
  <2> HIDE DEF s, open
  <2>6. Widget!Cardinality(s) + Widget!Cardinality(open)
          + (IF n \in dropped THEN 1 ELSE 0) = 1
    BY <2>3, <2>4 DEF ChatInv, OneFate
  <2> QED BY <2>5, <2>6 DEF s, open
<1> QED BY <1>6, <1>7, <1>8
           DEF ChatKeepsUp, Widget!ChatKeepsUp, Conversation, ChatInv, LoadingInv

(***************************************************************************)
(* For any number of messages, however answers come in: no message of the  *)
(* user is lost or moved, and each is being answered, has its one answer   *)
(* below it, or lost it to a message sent before the answer was rendered.  *)
(***************************************************************************)
THEOREM ChatAlwaysKeepsUp == ASSUME WidgetParameters PROVE Widget!Spec => []ChatKeepsUp
BY InitWidgetTypes, NextWidgetTypes, InitChat, NextChat, ChatInvImplies, PTL DEF Widget!Spec


-----------------------------------------------------------------------------

UploadParameters == MaxSelections \in Nat /\ {Upload!None, Upload!Failure} \cap Images = {}

LEMMA InitUploadTypes == ASSUME UploadParameters PROVE Upload!Init => Upload!TypeOK
<1>1. Upload!Init => named \in BOOLEAN /\ error \in BOOLEAN
  BY Zenon DEF Upload!Init
<1> QED BY <1>1 DEF Upload!Init, Upload!TypeOK, UploadParameters

LEMMA NextUploadTypes ==
  ASSUME UploadParameters
  PROVE  Upload!TypeOK /\ [Upload!Next]_Upload!vars => Upload!TypeOK'
<1> SUFFICES ASSUME Upload!TypeOK, [Upload!Next]_Upload!vars PROVE Upload!TypeOK'
  OBVIOUS
<1> USE DEF Upload!TypeOK, UploadParameters
<1>1. CASE Upload!SetFileName \/ Upload!OnUpload
  BY <1>1 DEF Upload!SetFileName, Upload!OnUpload
<1>2. CASE Upload!Uploaded
  BY <1>2 DEF Upload!Uploaded, Upload!Uploading
<1>3. ASSUME NEW file \in Images \cup Others \cup {Upload!None}, Upload!Select(file)
      PROVE  Upload!TypeOK'
  <2>1. selections' \in 1 .. MaxSelections
    BY <1>3 DEF Upload!Select
  <2>2. selected' \in Images \cup {Upload!None}
    BY <1>3 DEF Upload!Select, Upload!IsImageFile
  <2>3. reading' \subseteq [n : 1 .. MaxSelections, file : Images]
    BY <1>3, <2>1 DEF Upload!Select, Upload!IsImageFile
  <2>4. error' \in BOOLEAN
    BY <1>3, Zenon DEF Upload!Select
  <2> QED BY <1>3, <2>1, <2>2, <2>3, <2>4 DEF Upload!Select
<1>4. ASSUME NEW r \in reading, Upload!PreviewBuilt(r) PROVE Upload!TypeOK'
  BY <1>4 DEF Upload!PreviewBuilt
<1>5. CASE UNCHANGED Upload!vars
  BY <1>5 DEF Upload!vars
<1> QED BY <1>1, <1>2, <1>3, <1>4, <1>5 DEF Upload!Next

(* The variables of HiddenUpload keep their types.                         *)
THEOREM UploadTypesCorrect == ASSUME UploadParameters PROVE Upload!Spec => []Upload!TypeOK
BY InitUploadTypes, NextUploadTypes, PTL DEF Upload!Spec

-----------------------------------------------------------------------------
(* The inputs are disabled: what is being uploaded is still selected.      *)
UploadInv == Upload!ResultIsSelected /\ (request # Upload!None => request = selected)

LEMMA UploadStep ==
  ASSUME UploadParameters
  PROVE  Upload!TypeOK /\ UploadInv /\ [Upload!Next]_Upload!vars => UploadInv'
<1> SUFFICES ASSUME Upload!TypeOK, UploadInv, [Upload!Next]_Upload!vars PROVE UploadInv'
  OBVIOUS
<1> USE DEF UploadInv, Upload!ResultIsSelected, UploadParameters
<1>1. CASE Upload!SetFileName
  BY <1>1 DEF Upload!SetFileName
<1>2. CASE Upload!OnUpload
  BY <1>2 DEF Upload!OnUpload
<1>3. CASE Upload!Uploaded
  BY <1>3 DEF Upload!Uploaded, Upload!Uploading
<1>4. ASSUME NEW file \in Images \cup Others \cup {Upload!None}, Upload!Select(file)
      PROVE  UploadInv'
  BY <1>4 DEF Upload!Select, Upload!Enabled, Upload!Uploading
<1>5. ASSUME NEW r \in reading, Upload!PreviewBuilt(r) PROVE UploadInv'
  BY <1>5 DEF Upload!PreviewBuilt
<1>6. CASE UNCHANGED Upload!vars
  BY <1>6 DEF Upload!vars
<1> QED BY <1>1, <1>2, <1>3, <1>4, <1>5, <1>6 DEF Upload!Next

(***************************************************************************)
(* For any files and any number of selections, the picture shown as the    *)
(* result of an upload is the one selected.                                *)
(***************************************************************************)
THEOREM ResultIsAlwaysSelected ==
  ASSUME UploadParameters
  PROVE  Upload!Spec => []ResultIsSelected
<1>1. Upload!Init => UploadInv
  BY DEF Upload!Init, UploadInv, Upload!ResultIsSelected, UploadParameters
<1>2. UploadInv => ResultIsSelected
  BY DEF UploadInv, ResultIsSelected
<1> QED BY <1>1, <1>2, InitUploadTypes, NextUploadTypes, UploadStep, PTL DEF Upload!Spec

-----------------------------------------------------------------------------
(***************************************************************************)
(* A behaviour of MCPages is one page's: it is one of each page, which     *)
(* stutters but for the page it is about.                                  *)
(***************************************************************************)
LEMMA PagesSteps ==
  [MCNext]_mcVars => /\ [Next]_vars
                     /\ [Login!Next]_Login!vars
                     /\ [Widget!Next]_Widget!vars
                     /\ [Board!Next]_Board!vars
                     /\ [Upload!Next]_Upload!vars
<1> SUFFICES ASSUME [MCNext]_mcVars
             PROVE  /\ Next \/ UNCHANGED vars
                    /\ Login!Next \/ UNCHANGED loginVars
                    /\ Widget!Next \/ UNCHANGED widgetVars
                    /\ Board!Next \/ UNCHANGED boardVars
                    /\ Upload!Next \/ UNCHANGED uploadVars
  BY DEF Login!vars, Widget!vars, Board!vars, Upload!vars, loginVars, widgetVars,
     boardVars, uploadVars
<1>1. CASE MCNext
  BY <1>1 DEF MCNext
<1>2. CASE UNCHANGED mcVars
  BY <1>2 DEF mcVars
<1> QED BY <1>1, <1>2

(***************************************************************************)
(* What TLC explores of MCPages is of each page a behaviour of its own     *)
(* specification, so that a theorem about a page holds of the run.         *)
(***************************************************************************)
THEOREM PagesImplementEachPage ==
  MCSpec => Spec /\ Login!Spec /\ Widget!Spec /\ Board!Spec /\ Upload!Spec
<1>1. MCInit => Init /\ Login!Init /\ Widget!Init /\ Board!Init /\ Upload!Init
  BY DEF MCInit
<1> QED BY <1>1, PagesSteps, PTL
           DEF MCSpec, Spec, Login!Spec, Widget!Spec, Board!Spec, Upload!Spec

PagesParameters ==
  StoreParameters /\ LoginParameters /\ WidgetParameters /\ BoardParameters
    /\ UploadParameters

(***************************************************************************)
(* All pages keep their types, for any parameters.                         *)
(***************************************************************************)
THEOREM PagesTypesCorrect == ASSUME PagesParameters PROVE MCSpec => []Types
<1>1. StoreParameters /\ LoginParameters /\ WidgetParameters /\ BoardParameters
        /\ UploadParameters
  BY DEF PagesParameters
<1>2. Spec /\ Login!Spec /\ Widget!Spec /\ Board!Spec /\ Upload!Spec
        => []TypeOK /\ []Login!TypeOK /\ []Widget!TypeOK /\ []Board!TypeOK
          /\ []Upload!TypeOK
  BY <1>1, StoreTypesCorrect, LoginTypesCorrect, WidgetTypesCorrect, BoardTypesCorrect,
     UploadTypesCorrect, PTL
<1>3. TypeOK /\ Login!TypeOK /\ Widget!TypeOK /\ Board!TypeOK /\ Upload!TypeOK => Types
  BY DEF Types
<1> QED BY <1>2, <1>3, PagesImplementEachPage, PTL

=============================================================================
