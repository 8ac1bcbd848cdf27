------------------------------ MODULE WebAccess ------------------------------
(***************************************************************************)
(* The dashboard in a browser: who is signed in, which page is open, and the  *)
(* requests that have been sent.  What a page fetches and which buttons it    *)
(* shows is decided in the browser by the user's role; whether the request    *)
(* is carried out is decided by the API's routes, by the role in the token.   *)
(* Users are told apart by their role only.                                  *)
(***************************************************************************)
EXTENDS FiniteSets, Naturals

CONSTANTS
    NoRole,
    MaxSent         \* bound: requests without an answer

VARIABLES
    who,            \* the role of the user signed in, or NoRole
    open,
    sent            \* requests, each with the role in its token

webVars == <<who, open, sent>>

Operators == {"SUPER_ADMIN", "COMPANY_ADMIN", "BRANCH_MANAGER", "DISPATCHER"}
Management == Operators \ {"DISPATCHER"}
Role == Operators \cup {"STORE_ADMIN", "CAPTAIN", "CUSTOMER"}

ASSUME WebAssumption == NoRole \notin Role /\ MaxSent \in Nat

-----------------------------------------------------------------------------
(* The API's routes: the roles that each call of the dashboard is for *)

\* A captain reads his own entries only; the dashboard asks for any captain's.
CaptainRoutes == [
    captainsList |-> Operators, captainsCreate |-> Operators, captainsGet |-> Operators,
    captainsUpdate |-> Operators \cup {"CAPTAIN"}, captainsActive |-> Operators,
    captainsDelete |-> Management, captainStats |-> Operators, captainOrders |-> Operators,
    prepaidCharge |-> Management, prepaidAdjustment |-> Management, prepaidTransactions |-> Operators]

OrderRoutes == [
    ordersList |-> Operators \cup {"STORE_ADMIN"}, ordersCreate |-> Operators \cup {"STORE_ADMIN"},
    distributionAuto |-> Operators, distributionManual |-> Operators, distributionDragDrop |-> Operators,
    distributionResend |-> Operators, distributionCancelCaptain |-> Operators,
    archive |-> Operators, overrideStatus |-> Operators]

UserRoutes == [usersList |-> Operators, usersCreate |-> {"SUPER_ADMIN"}, usersActive |-> Management,
               customerProfile |-> Operators]

NotificationRoutes == [notificationsCreate |-> Operators, quickStatus |-> Operators, notificationsList |-> Role]

TrackingRoutes == [activeMap |-> Operators]
ActivityRoutes == [activityList |-> Operators]
SettingsRoutes == [settingsGet |-> Operators, settingsPatch |-> Operators]
GeocodeRoutes == [geocodePlace |-> Operators]

\* requireRoles of the route the call is mounted on
Admitted(ask) ==
    CASE ask \in DOMAIN CaptainRoutes -> CaptainRoutes[ask]
      [] ask \in DOMAIN OrderRoutes -> OrderRoutes[ask]
      [] ask \in DOMAIN UserRoutes -> UserRoutes[ask]
      [] ask \in DOMAIN NotificationRoutes -> NotificationRoutes[ask]
      [] ask \in DOMAIN TrackingRoutes -> TrackingRoutes[ask]
      [] ask \in DOMAIN ActivityRoutes -> ActivityRoutes[ask]
      [] ask \in DOMAIN SettingsRoutes -> SettingsRoutes[ask]
      [] ask \in DOMAIN GeocodeRoutes -> GeocodeRoutes[ask]

ApiCall ==
    DOMAIN CaptainRoutes \cup DOMAIN OrderRoutes \cup DOMAIN UserRoutes \cup DOMAIN NotificationRoutes
    \cup DOMAIN TrackingRoutes \cup DOMAIN ActivityRoutes \cup DOMAIN SettingsRoutes \cup DOMAIN GeocodeRoutes

-----------------------------------------------------------------------------
(* The browser's own idea of the roles *)

isDispatchRole(r) == r \in {"SUPER_ADMIN", "COMPANY_ADMIN", "BRANCH_MANAGER", "DISPATCHER"}
isManagementAdminRole(r) == r \in {"SUPER_ADMIN", "COMPANY_ADMIN", "BRANCH_MANAGER"}
canListOrdersRole(r) == isDispatchRole(r) \/ r = "STORE_ADMIN"

Pages == {"login", "home", "newOrder", "distribution", "incubator", "orders", "captains", "users"}

\* The sidebar's links.  Every page also has an address that anybody can type.
NavTo(r) ==
    {"home"} \cup (IF canListOrdersRole(r) THEN {"newOrder", "orders"} ELSE {})
             \cup (IF isDispatchRole(r) THEN {"distribution", "incubator", "captains", "users"} ELSE {})

\* <Navigate to="/"> of a page's view, after its hooks have run
Bounces(p, r) == p \in {"distribution", "incubator", "captains", "users"} /\ ~isDispatchRole(r)

-----------------------------------------------------------------------------
(* What a page fetches: its loader before it is rendered, its hooks again and again *)

For(condition, calls) == IF condition THEN calls ELSE {}

HomeLoads(r) ==
    {"notificationsList"} \cup For(canListOrdersRole(r), {"ordersList"})
    \cup For(isDispatchRole(r), {"captainsList", "ordersList", "activityList", "settingsGet"})

OrdersLoads(r) == {"ordersList"} \cup For(isDispatchRole(r), {"captainsList"})

DistributionLoads(r) ==
    For(isDispatchRole(r), {"ordersList", "captainsList", "captainsGet", "activeMap", "settingsGet"})

CaptainsLoads(r) == For(isDispatchRole(r), {"captainsList", "captainStats", "captainOrders"})

\* Mutant: the hook asks whatever the role, and leaves it to the page to navigate away.
UsersLoadsAnyhow(r) == {"usersList"}

UsersLoads(r) == For(isDispatchRole(r), {"usersList"})

Loads(p, r) ==
    CASE p = "home" -> HomeLoads(r)
      [] p = "orders" -> OrdersLoads(r)
      [] p = "distribution" -> DistributionLoads(r)
      [] p = "captains" -> CaptainsLoads(r)
      [] p = "users" -> UsersLoads(r)
      [] OTHER -> {}

-----------------------------------------------------------------------------
(* The buttons of a page that stays *)

HomeButtons(r) == For(isDispatchRole(r), {"quickStatus", "settingsPatch", "geocodePlace"})

OrdersButtons(r) ==
    For(isDispatchRole(r), {"distributionAuto", "distributionManual", "distributionResend",
                            "distributionCancelCaptain", "archive", "overrideStatus"})

DistributionButtons == {"distributionDragDrop", "distributionManual", "distributionResend", "notificationsCreate"}

\* The roster shows the balance's buttons to whoever sees the page, and deletion to managers.
RosterButtons == {"prepaidCharge", "prepaidAdjustment", "prepaidTransactions", "captainsActive"}
CaptainsButtons(r) ==
    {"captainsCreate", "captainsUpdate"} \cup RosterButtons
    \cup For(isManagementAdminRole(r), {"captainsDelete"})

UsersButtons(r) ==
    For(isManagementAdminRole(r), {"usersCreate", "usersActive"}) \cup For(isDispatchRole(r), {"customerProfile"})

Buttons(p, r) ==
    CASE p = "home" -> HomeButtons(r)
      [] p = "newOrder" -> {"ordersCreate"}
      [] p = "incubator" -> {"ordersCreate", "distributionAuto"}
      [] p = "orders" -> OrdersButtons(r)
      [] p = "distribution" -> DistributionButtons
      [] p = "captains" -> CaptainsButtons(r)
      [] p = "users" -> UsersButtons(r)
      [] OTHER -> {}

-----------------------------------------------------------------------------
WebInit == who = NoRole /\ open = "login" /\ sent = {}

WebSignIn(r) ==
    /\ who = NoRole /\ open = "login"
    /\ who' = r /\ open' = "home"
    /\ UNCHANGED sent

\* clear() and navigate: requests that were sent go on.
WebSignOut ==
    /\ who # NoRole
    /\ who' = NoRole /\ open' = "login"
    /\ UNCHANGED sent

\* A link of the sidebar or an address; RequireGuest and the layout guard the login page.
Visit(p) ==
    /\ who # NoRole /\ p # "login"
    /\ open' = p
    /\ UNCHANGED <<who, sent>>

Bounce ==
    /\ Bounces(open, who)
    /\ open' = "home"
    /\ UNCHANGED <<who, sent>>

RequestSent(ask) ==
    /\ who # NoRole /\ Cardinality(sent) < MaxSent
    /\ sent' = sent \cup {[by |-> who, call |-> ask]}
    /\ UNCHANGED <<who, open>>

\* The loader, the mount of a hook, its interval, an event or an invalidation
PageFetch(ask) == ask \in Loads(open, who) /\ RequestSent(ask)

Press(ask) == ~Bounces(open, who) /\ ask \in Buttons(open, who) /\ RequestSent(ask)

\* Data, or a refusal that the page shows
AnswerCame(q) ==
    /\ sent' = sent \ {q}
    /\ UNCHANGED <<who, open>>

\* 401: the handler of main.tsx clears whatever session there is, and loads the login page anew.
TokenRefused(q) ==
    /\ who' = NoRole
    /\ open' = "login"
    /\ sent' = IF open = "login" THEN sent \ {q} ELSE {}

WebNext ==
    \/ \E r \in Role : WebSignIn(r)
    \/ WebSignOut \/ Bounce
    \/ \E p \in Pages : Visit(p)
    \/ \E ask \in ApiCall : PageFetch(ask) \/ Press(ask)
    \/ \E q \in sent : AnswerCame(q) \/ TokenRefused(q)

WebSpec == WebInit /\ [][WebNext]_webVars

-----------------------------------------------------------------------------
WebTypeOK ==
    /\ who \in Role \cup {NoRole}
    /\ open \in Pages
    /\ sent \subseteq [by : Role, call : ApiCall]

\* A button shown to a role its call is not for, and pages that let anybody in by their address
ShownAnyhow(q) ==
    \/ q.call \in {"prepaidCharge", "prepaidAdjustment"} /\ q.by = "DISPATCHER"
    \/ q.call = "usersCreate" /\ q.by \in Management \ {"SUPER_ADMIN"}
    \/ q.call \in {"ordersList", "ordersCreate"} /\ ~canListOrdersRole(q.by)

\* The two ideas of the roles agree: what the dashboard sends for a user is for his role, on
\* every page the sidebar leads him to and on those he is sent away from.  The API refuses
\* only: a dispatcher's charge or adjustment of a captain's balance and a company's
\* or branch manager's new user, whose buttons are shown to them, and the two pages that let
\* anybody in by their address, the orders and the new order.
RefusedOnlyWhere ==
    /\ \A q \in sent : q.by \in Admitted(q.call) \/ ShownAnyhow(q)
    /\ who # NoRole => \A p \in NavTo(who) :
         /\ ~Bounces(p, who)
         /\ \A ask \in Loads(p, who) : who \in Admitted(ask)
=============================================================================
