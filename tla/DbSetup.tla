-------------------------------- MODULE DbSetup --------------------------------
(****************************************************************************)
(* scripts/db-setup.py: the script that creates the database, a role per    *)
(* owner and the schemas, and grants every role full access to the schemas  *)
(* it owns and read-only access to the others, for the objects there are    *)
(* and for those to come.  It commits every statement, may die at any of    *)
(* them, and is repeated; meanwhile the roles and the admin create and      *)
(* replace tables.  The server is empty at first, or was set up by a        *)
(* version of the script with fewer schemas and roles.                      *)
(*                                                                          *)
(* Of the kinds of objects the model follows TABLES, and a schema holds one *)
(* table.  SEQUENCES have their statements after those of TABLES, of the    *)
(* same form, and so have FUNCTIONS for the owner alone.                    *)
(****************************************************************************)
EXTENDS Naturals, Sequences, Functions

CONSTANTS RoleList,    \* ROLES
          SchemaList,  \* the keys of SCHEMA_OWNERS
          Owner,       \* Owner[s]: the role that owns schema s
          Admin,       \* the account the script connects with
          None,        \* no schema, role or table
          MaxDeaths    \* bound: runs that die where nothing forbids to go on

Roles == Range(RoleList)
Schemas == Range(SchemaList)
Creators == {Admin} \cup Roles

ASSUME ListsAssumption ==
  /\ RoleList \in Seq(Roles) \ {<<>>} /\ SchemaList \in Seq(Schemas) \ {<<>>}
  /\ Owner \in [Schemas -> Roles] /\ Admin \notin Roles /\ None \notin Creators
ASSUME DeathsAssumption == MaxDeaths \in Nat

VARIABLES
  superuser,  \* the admin is one
  database,   \* the database exists
  roles,      \* the roles that exist
  member,     \* those the admin is a member of
  connects,   \* those that may connect to the database
  owner,      \* owner[s]: who owns schema s, None if there is none
  usage,      \* pairs <<s, r>>: r was granted its privilege on schema s
  defaults,   \* <<s, c, r>>: r was granted its privilege on what c creates in s
  table,      \* table[s]: who created it, who may do what; None if there is none
  known,      \* roles whose password was reported
  pc,         \* the statement of the script that is due
  existing,   \* roles that the run found
  reset,      \* the run was told to reset their passwords
  passwords,  \* the roles whose new password the run holds
  complete,   \* a run has reached its end
  deaths      \* counted for the bound

access == <<database, roles, member, connects, owner, usage, defaults>>
run == <<pc, existing, reset, passwords>>
setupVars == <<superuser, access, table, known, run, complete, deaths>>

(* FULL_ACCESS and READ_ONLY.                                               *)
Privilege(s, r) == IF Owner[s] = r THEN "full" ELSE "read"

Table == [by : Creators, may : [Roles -> {"none", "read", "full"}],
          gap : SUBSET Roles]   \* whom the run forgot when it was created

--------------------------------------------------------------------------------
(* Variant: default privileges for what the roles create alone.             *)
CreatorListX == RoleList

CreatorList == <<Admin>> \o RoleList

(* A place in main(): a statement, and where its loops are; a loop that does *)
(* not run is at its first element.                                         *)
Statements == {"off", "database", "find", "role", "membership", "connect", "schema", "owner",
               "usage", "objects", "default", "report"}

Place == [do : Statements, schema : DOMAIN SchemaList, role : DOMAIN RoleList,
          creator : DOMAIN CreatorList]

First(do) == [do |-> do, schema |-> 1, role |-> 1, creator |-> 1]

(* The script does not run.                                                 *)
Off == First("off")

Due == [schema |-> SchemaList[pc.schema], role |-> RoleList[pc.role],
        creator |-> CreatorList[pc.creator]]

At(do) == pc.do = do

(* A loop goes on at statement `do` with its next element, or is over.      *)
NextSchema(do, after) ==
  IF pc.schema < Len(SchemaList) THEN [First(do) EXCEPT !.schema = pc.schema + 1] ELSE after

NextRole(do, after) ==
  IF pc.role < Len(RoleList)
  THEN [First(do) EXCEPT !.schema = pc.schema, !.role = pc.role + 1] ELSE after

NextCreator(do, after) ==
  IF pc.creator < Len(CreatorList)
  THEN [pc EXCEPT !.do = do, !.creator = pc.creator + 1] ELSE after

SetupTypeOK ==
  /\ superuser \in BOOLEAN /\ database \in BOOLEAN
  /\ roles \subseteq Roles /\ member \subseteq roles
  /\ connects \subseteq roles /\ known \subseteq roles
  /\ owner \in [Schemas -> Creators \cup {None}]
  /\ usage \subseteq Schemas \X Roles /\ defaults \subseteq Schemas \X Creators \X Roles
  /\ table \in [Schemas -> Table \cup {None}]
  /\ pc \in Place /\ existing \subseteq Roles /\ passwords \subseteq Roles
  /\ reset \in BOOLEAN /\ complete \in BOOLEAN /\ deaths \in 0 .. MaxDeaths

(* What a complete run of a version with the roles R and the schemas S left *)
(* behind; the admin granted what it had to.                                *)
SetUp(R, S) ==
  /\ roles = R /\ member = IF superuser THEN {} ELSE R
  /\ connects = R /\ known = R
  /\ owner = [s \in Schemas |-> IF s \in S THEN Owner[s] ELSE None]
  /\ usage = S \X R
  /\ defaults = S \X ({Admin} \cup R) \X R

SetupInit ==
  /\ superuser \in BOOLEAN
  /\ \E R \in SUBSET Roles, S \in SUBSET Schemas :
       /\ \A s \in S : Owner[s] \in R
       /\ database = (R # {}) /\ SetUp(R, S)
  /\ table = [s \in Schemas |-> None]
  /\ pc = Off /\ existing = {} /\ reset = FALSE /\ passwords = {}
  /\ complete = FALSE /\ deaths = 0

--------------------------------------------------------------------------------
(* Table s is created, or dropped and created again as a publish does: it   *)
(* has the default privileges of that moment, and belongs to its creator.   *)
MayCreate(c, s) ==
  \/ c \in roles /\ c = Owner[s] /\ (owner[s] = c \/ <<s, c>> \in usage)
  \/ c = Admin /\ (superuser \/ owner[s] \in member \cup {Admin})

(* The run has granted r what there is in s, and not yet what c creates.    *)
Between(s, c, r) ==
  At("default") /\ Due.schema = s /\ Due.role = r /\ <<s, c, r>> \notin defaults

CreateTable(c, s) ==
  /\ owner[s] # None /\ MayCreate(c, s)
  /\ table' = [table EXCEPT ![s] =
       [by |-> c, gap |-> {r \in Roles : Between(s, c, r)},
        may |-> [r \in Roles |-> IF r = c THEN "full"
                                 ELSE IF <<s, c, r>> \in defaults THEN Privilege(s, r)
                                 ELSE "none"]]]
  /\ UNCHANGED <<superuser, access, known, run, complete, deaths>>

--------------------------------------------------------------------------------
(* The script is run, with a terminal or without.                           *)
Start ==
  /\ At("off")
  /\ pc' = First("database") /\ existing' = {} /\ passwords' = {} /\ reset' = FALSE
  /\ UNCHANGED <<superuser, access, table, known, complete, deaths>>

(* A statement is done, and the script goes on.                             *)
Proceed(to, kept) ==
  /\ pc' = to
  /\ UNCHANGED <<superuser, kept, complete, deaths>>

CreateDatabase ==
  /\ At("database")
  /\ database' = TRUE
  /\ Proceed(First("find"),
          <<roles, member, connects, owner, usage, defaults, table, known,
            existing, reset, passwords>>)

(* setup_roles looks which roles there are, and asks if there are some.     *)
FindRoles(answer) ==
  /\ At("find")
  /\ existing' = roles
  /\ answer => roles # {}
  /\ reset' = answer
  /\ Proceed(First("role"),
          <<access, table, known, passwords>>)

(* create_role and reset_password: the password is in the run alone until   *)
(* it is reported.                                                          *)
NewPassword ==
  /\ roles' = roles \cup {Due.role}
  /\ passwords' = passwords \cup {Due.role}
  /\ known' = known \ {Due.role}

(* Variant: a role that exists gets a new password without being asked.     *)
SetUpRoleX ==
  /\ At("role")
  /\ NewPassword
  /\ Proceed(NextRole("role", First("membership")),
          <<database, member, connects, owner, usage, defaults, table, existing, reset>>)

SetUpRole ==
  /\ At("role")
  /\ IF Due.role \notin existing \/ reset THEN NewPassword
     ELSE UNCHANGED <<roles, passwords, known>>
  /\ Proceed(NextRole("role", First("membership")),
          <<database, member, connects, owner, usage, defaults, table, existing, reset>>)

(* Variant: every admin is taken for a superuser.                           *)
GrantMembershipX ==
  /\ At("membership")
  /\ Proceed(NextRole("membership", First("connect")),
          <<access, table, known, existing, reset, passwords>>)

(* A superuser does not need to be a member.                                *)
GrantMembership ==
  /\ At("membership")
  /\ member' = IF superuser THEN member ELSE member \cup {Due.role}
  /\ Proceed(NextRole("membership", First("connect")),
          <<database, roles, connects, owner, usage, defaults, table, known,
            existing, reset, passwords>>)

GrantConnect ==
  /\ At("connect")
  /\ connects' = Roles
  /\ Proceed(First("schema"),
          <<database, roles, member, owner, usage, defaults, table, known,
            existing, reset, passwords>>)

SetOwner(who, to) ==
  /\ owner' = [owner EXCEPT ![Due.schema] = who]
  /\ Proceed(to,
          <<database, roles, member, connects, usage, defaults, table, known,
            existing, reset, passwords>>)

(* CREATE SCHEMA IF NOT EXISTS.                                             *)
Create ==
  /\ At("schema")
  /\ SetOwner(IF owner[Due.schema] = None THEN Admin ELSE owner[Due.schema],
              [pc EXCEPT !.do = "owner"])

AlterOwner ==
  /\ At("owner")
  /\ SetOwner(Owner[Due.schema], NextSchema("schema", First("usage")))

GrantOnSchema ==
  /\ At("usage")
  /\ usage' = usage \cup {<<Due.schema, Due.role>>}
  /\ Proceed([pc EXCEPT !.do = "objects"],
          <<database, roles, member, connects, owner, defaults, table, known,
            existing, reset, passwords>>)

(* GRANT adds to what there is.                                             *)
Granted(t, s, r) ==
  [by |-> t.by, gap |-> t.gap \ {r},
   may |-> [t.may EXCEPT ![r] = IF @ = "full" THEN @ ELSE Privilege(s, r)]]

GrantOnObjects ==
  /\ At("objects")
  /\ LET s == Due.schema
     IN table' = IF table[s] = None THEN table
                 ELSE [table EXCEPT ![s] = Granted(table[s], s, Due.role)]
  /\ Proceed([pc EXCEPT !.do = "default", !.creator = 1],
          <<access, known, existing, reset, passwords>>)

AlterDefaults ==
  /\ At("default")
  /\ defaults' = defaults \cup {<<Due.schema, Due.creator, Due.role>>}
  /\ Proceed(NextCreator("default", NextRole("usage",
                                NextSchema("usage", First("report")))),
          <<database, roles, member, connects, owner, usage, table, known,
            existing, reset, passwords>>)

Stop == pc' = Off /\ existing' = {} /\ reset' = FALSE /\ passwords' = {}

(* The passwords are printed, all at once.                                  *)
Report ==
  /\ At("report")
  /\ known' = known \cup passwords /\ complete' = TRUE
  /\ Stop
  /\ UNCHANGED <<superuser, access, table, deaths>>

(* The server lets a member of a role, or a superuser, act for the role.    *)
ActsFor(who) == who \in IF superuser THEN Creators ELSE member \cup {Admin}

(* The server executes the statement that is due.                           *)
Accepted ==
  /\ At("owner") => ActsFor(owner[Due.schema]) /\ ActsFor(Owner[Due.schema])
  /\ At("usage") => ActsFor(owner[Due.schema])
  /\ At("objects") /\ table[Due.schema] # None => ActsFor(table[Due.schema].by)
  /\ At("default") => ActsFor(Due.creator)

ExecuteStatement ==
  /\ Accepted
  /\ \/ CreateDatabase \/ SetUpRole \/ GrantMembership \/ GrantConnect
     \/ Create \/ AlterOwner \/ GrantOnSchema \/ GrantOnObjects \/ AlterDefaults
     \/ Report \/ \E answer \in BOOLEAN : FindRoles(answer)

(* The server refuses the statement, the connection breaks or Ctrl-C is     *)
(* pressed.                                                                 *)
Dies ==
  /\ ~At("off")
  /\ Accepted => deaths < MaxDeaths
  /\ deaths' = IF Accepted THEN deaths + 1 ELSE deaths
  /\ Stop
  /\ UNCHANGED <<superuser, access, table, known, complete>>

SetupNext ==
  \/ \E c \in Creators, s \in Schemas : CreateTable(c, s)
  \/ Start \/ ExecuteStatement \/ Dies

SetupSpec == SetupInit /\ [][SetupNext]_setupVars

(* A run goes on; one that failed is repeated, and so is one after which a  *)
(* password is missing; if that happens again and again, the reset is       *)
(* confirmed at some time.                                                  *)
Fairness ==
  /\ WF_setupVars(ExecuteStatement) /\ WF_setupVars(~Accepted /\ Dies)
  /\ WF_setupVars(Start /\ ~(complete /\ known = Roles))
  /\ SF_setupVars(ExecuteStatement /\ FindRoles(TRUE))

FairSetupSpec == SetupSpec /\ Fairness

--------------------------------------------------------------------------------
(* When the script says that the setup is complete, every role can connect  *)
(* and has on every table exactly what its owner is to have and the others  *)
(* are: whoever created it, whenever, before a run, at any statement of one *)
(* or after it, under whichever version, whatever earlier runs left undone. *)
(* But for the one role of whom a run had done the GRANT ON ALL in the      *)
(* schema, and not yet the ALTER DEFAULT PRIVILEGES for the creator, when   *)
(* the table appeared; the GRANT ON ALL of another run finds it.            *)
CompleteMeansReady ==
  complete =>
    /\ database /\ roles = Roles /\ connects = Roles
    /\ owner = Owner /\ usage = Schemas \X Roles
    /\ \A s \in Schemas : table[s] # None =>
         \A r \in Roles \ table[s].gap : table[s].may[r] = Privilege(s, r)

(* "Re-running it never changes existing state": roles, schemas, grants on  *)
(* tables, but for those it forgot; and it keeps the passwords unless the   *)
(* reset was confirmed.                                                     *)
RerunsChangeNothing ==
  [][complete /\ pc' # pc =>
       /\ ~(reset \/ reset') => UNCHANGED <<access, known>>
       /\ \A s \in Schemas : table'[s] # table[s] =>
            \A r \in Roles \ table[s].gap : table'[s].may[r] = table[s].may[r]]_setupVars

(* "A failed run can simply be repeated": at last one is complete.  And     *)
(* though a run that dies takes the new passwords with it, confirmed resets *)
(* bring every password to light.                                           *)
RepeatsRecover == <>complete /\ []<>(known = Roles)
================================================================================
