------------------------------- MODULE Schema -------------------------------
(***************************************************************************)
(* The database schema, which the repository writes twice: as the          *)
(* statements of alembic/versions, and as the classes of app/db/models.py. *)
(*                                                                         *)
(* A schema has enumeration types with their labels, and tables.  Of a     *)
(* table there are its columns, its unique keys beyond `id`, and what it   *)
(* refers to: <<column, table, "CASCADE" or "SET NULL">> or                *)
(* <<column, type, "type">>.  Defaults, lengths and the index every table  *)
(* has on its tenant_id are left out.                                      *)
(***************************************************************************)
EXTENDS Sequences, TLC, SequencesExt

Own    == {"id", "tenant_id"}                   \* UUIDPrimaryKeyMixin, TenantMixin
Stamps == {"created_at", "updated_at"}          \* TimestampMixin

\* A table with the columns cols besides those of refs.
Table(cols, refs, keys) ==
    [cols |-> cols \cup {r[1] : r \in refs}, refs |-> refs, keys |-> keys]

Nulls(col, target)    == <<col, target, "SET NULL">>
Cascades(col, target) == <<col, target, "CASCADE">>
Typed(col, type)      == <<col, type, "type">>

Empty == [types |-> << >>, tables |-> << >>]

-----------------------------------------------------------------------------
(***************************************************************************)
(* Statements: what they need and what they do.                            *)
(***************************************************************************)
CreateType(t, labels) == [do |-> "create type", on |-> t, with |-> labels]
AddLabel(t, label)    == [do |-> "add label", on |-> t, with |-> {label}]
DropType(t)           == [do |-> "drop type", on |-> t]
CreateTable(t, table) == [do |-> "create table", on |-> t, with |-> table]
DropTable(t)          == [do |-> "drop table", on |-> t]
AddColumn(t, col)     == [do |-> "add column", on |-> t, with |-> col]
AddRef(t, ref)        == [do |-> "add reference", on |-> t, with |-> ref]
DropRef(t, ref)       == [do |-> "drop reference", on |-> t, with |-> ref]
DropColumn(t, col)    == [do |-> "drop column", on |-> t, with |-> col]

TablesOf(s) == DOMAIN s.tables
TypesOf(s)  == DOMAIN s.types
RefsOf(s, t) == s.tables[t].refs
UsedBy(s, x) == {t \in TablesOf(s) \ {x} : \E r \in RefsOf(s, t) : r[2] = x}

\* The database accepts the statement.  Types are created and dropped with
\* checkfirst, a label is added if it is missing.
Runs(st, s) ==
    LET t == st.on IN
    CASE st.do = "create type"  -> TRUE
      [] st.do = "add label"    -> t \in TypesOf(s)
      [] st.do = "drop type"    -> UsedBy(s, t) = {}
      [] st.do = "create table" ->
            /\ t \notin TablesOf(s)
            /\ \A r \in st.with.refs : r[2] \in TablesOf(s) \cup TypesOf(s) \cup {t}
      [] st.do = "drop table"   -> t \in TablesOf(s) /\ UsedBy(s, t) = {}
      [] st.do = "add column"   -> t \in TablesOf(s) /\ st.with \notin s.tables[t].cols
      [] st.do = "add reference" ->
            /\ t \in TablesOf(s) /\ st.with[1] \in s.tables[t].cols
            /\ st.with[2] \in TablesOf(s) \cup TypesOf(s)
            /\ st.with \notin RefsOf(s, t)
      [] st.do = "drop reference" -> t \in TablesOf(s) /\ st.with \in RefsOf(s, t)
      [] st.do = "drop column"  -> t \in TablesOf(s) /\ st.with \in s.tables[t].cols

Without(f, x) == [y \in DOMAIN f \ {x} |-> f[y]]

After(st, s) ==
    LET t == st.on IN
    CASE st.do = "create type" -> [s EXCEPT !.types = @ @@ (t :> st.with)]
      [] st.do = "add label" -> [s EXCEPT !.types[t] = @ \cup st.with]
      [] st.do = "drop type" -> [s EXCEPT !.types = Without(@, t)]
      [] st.do = "create table" -> [s EXCEPT !.tables = @ @@ (t :> st.with)]
      [] st.do = "drop table" -> [s EXCEPT !.tables = Without(@, t)]
      [] st.do = "add column" -> [s EXCEPT !.tables[t].cols = @ \cup {st.with}]
      [] st.do = "add reference" -> [s EXCEPT !.tables[t].refs = @ \cup {st.with}]
      [] st.do = "drop reference" -> [s EXCEPT !.tables[t].refs = @ \ {st.with}]
      [] st.do = "drop column" ->
            [s EXCEPT !.tables[t].cols = @ \ {st.with},
                      !.tables[t].refs = {r \in @ : r[1] # st.with}]

-----------------------------------------------------------------------------
(***************************************************************************)
(* alembic/versions/0001_initial.py.                                       *)
(***************************************************************************)
Roles == {"SUPERADMIN", "ADMIN", "EMPLOYEE", "AI_AGENT"}

Types0001 == <<
    CreateType("user_role", Roles), CreateType("invite_role", Roles),
    CreateType("task_status", {"TODO", "IN_PROGRESS", "DONE", "BLOCKED"}),
    CreateType("ticket_status", {"OPEN", "IN_PROGRESS", "RESOLVED", "CLOSED"}),
    CreateType("break_kind", {"BREAK", "LUNCH"})>>

Departments0001 ==
    CreateTable("departments", Table(Own \cup Stamps \cup {"name", "description"}, {},
                                     {{"tenant_id", "name"}}))

Users0001 ==
    CreateTable("users",
        Table(Own \cup Stamps \cup {"email", "full_name", "google_sub", "password_hash", "is_active",
                  "work_start_time", "work_end_time", "break_minutes", "lunch_minutes"},
              {Typed("role", "user_role"), Nulls("department_id", "departments"), Nulls("manager_id", "users")},
              {{"tenant_id", "email"}}))

Accounts0001 == <<
    CreateTable("agent_profiles",
        Table(Own \cup Stamps \cup {"tools_allowed", "last_heartbeat_at"},
              {Cascades("user_id", "users"), Nulls("created_by_user_id", "users")}, {{"user_id"}})),
    CreateTable("invites",
        Table(Own \cup Stamps \cup {"email", "full_name", "tools_allowed", "expires_at", "accepted_at"},
              {Typed("role", "invite_role"), Nulls("department_id", "departments"), Nulls("manager_id", "users"),
               Nulls("invited_by_user_id", "users"), Nulls("accepted_user_id", "users")}, {})),
    CreateTable("refresh_tokens",
        Table(Own \cup Stamps \cup {"token_hash", "expires_at", "revoked_at"},
              {Cascades("user_id", "users")}, {{"token_hash"}})),
    CreateTable("audit_logs",
        Table(Own \cup {"created_at", "actor_user_id", "action", "target_type", "target_id", "metadata_json"},
              {}, {}))>>

Work0001 == <<
    CreateTable("time_entries",
        Table(Own \cup Stamps \cup {"work_date", "check_in_at", "check_out_at", "total_worked_minutes",
                  "ot_minutes", "break_minutes", "lunch_minutes"},
              {Cascades("user_id", "users")}, {{"tenant_id", "user_id", "work_date"}})),
    CreateTable("time_break_windows",
        Table(Own \cup Stamps \cup {"start_at", "end_at"},
              {Cascades("time_entry_id", "time_entries"), Typed("kind", "break_kind")}, {})),
    CreateTable("agent_heartbeats",
        Table(Own \cup Stamps \cup {"activity"}, {Cascades("agent_user_id", "users")}, {})),
    CreateTable("tasks",
        Table(Own \cup Stamps \cup {"title", "description", "due_at", "completed_at"},
              {Typed("status", "task_status"), Nulls("assignee_user_id", "users"),
               Nulls("created_by_user_id", "users")}, {})),
    CreateTable("helpdesk_tickets",
        Table(Own \cup Stamps \cup {"title", "description"},
              {Typed("status", "ticket_status"), Cascades("requested_by_user_id", "users"),
               Nulls("assigned_to_user_id", "users"), Nulls("task_id", "tasks")}, {{"task_id"}}))>>

Chat0001 == <<
    CreateTable("chat_threads",
        Table(Own \cup Stamps \cup {"is_dm"}, {Cascades("created_by_user_id", "users")}, {})),
    CreateTable("chat_thread_participants",
        Table({"tenant_id", "last_read_at", "joined_at"},
              {Cascades("thread_id", "chat_threads"), Cascades("user_id", "users")}, {{"thread_id", "user_id"}})),
    CreateTable("chat_messages",
        Table(Own \cup Stamps \cup {"content"},
              {Cascades("thread_id", "chat_threads"), Cascades("sender_user_id", "users")}, {})),
    CreateTable("announcements",
        Table(Own \cup Stamps \cup {"title", "body"}, {Cascades("created_by_user_id", "users")}, {})),
    CreateTable("announcement_reads",
        Table({"tenant_id", "read_at"},
              {Cascades("announcement_id", "announcements"), Cascades("user_id", "users")},
              {{"announcement_id", "user_id"}}))>>

Library0001 == <<
    CreateTable("knowledge_categories",
        Table(Own \cup Stamps \cup {"name", "description"}, {}, {{"tenant_id", "name"}})),
    CreateTable("knowledge_articles",
        Table(Own \cup Stamps \cup {"title", "content"},
              {Nulls("category_id", "knowledge_categories"), Nulls("created_by_user_id", "users"),
               Nulls("updated_by_user_id", "users")}, {})),
    CreateTable("form_templates",
        Table(Own \cup Stamps \cup {"name", "description", "fields_schema"},
              {Nulls("created_by_user_id", "users")}, {})),
    CreateTable("form_submissions",
        Table(Own \cup Stamps \cup {"answers_encrypted"},
              {Cascades("template_id", "form_templates"), Cascades("submitted_by_user_id", "users")}, {})),
    CreateTable("attachments",
        Table(Own \cup Stamps \cup {"owner_type", "owner_id", "filename", "content_type", "size_bytes", "s3_key"},
              {Nulls("created_by_user_id", "users")}, {{"s3_key"}}))>>

Up0001 == Types0001 \o <<Departments0001, Users0001>>
          \o Accounts0001 \o Work0001 \o Chat0001 \o Library0001

Down0001 ==
    [n \in 1..21 |-> DropTable(<<
        "attachments", "form_submissions", "form_templates", "knowledge_articles",
        "knowledge_categories", "announcement_reads", "announcements", "chat_messages",
        "chat_thread_participants", "chat_threads", "helpdesk_tickets", "tasks",
        "agent_heartbeats", "time_break_windows", "time_entries", "audit_logs",
        "refresh_tokens", "invites", "agent_profiles", "users", "departments">>[n])]
    \o [n \in 1..5 |-> DropType(
        <<"break_kind", "ticket_status", "task_status", "invite_role", "user_role">>[n])]

-----------------------------------------------------------------------------
(***************************************************************************)
(* alembic/versions/0002_pilot_extensions.py.                              *)
(***************************************************************************)
Up0002 == <<
    AddLabel("user_role", "HOD"), AddLabel("invite_role", "HOD"),
    CreateTable("tenants", Table({"id", "name", "created_at"}, {}, {})),
    AddColumn("departments", "parent_id"), AddRef("departments", Nulls("parent_id", "departments")),
    CreateType("employee_type", {"HUMAN", "AGENT"}),
    AddColumn("users", "employee_type"), AddRef("users", Typed("employee_type", "employee_type")),
    AddColumn("time_entries", "source"), AddColumn("time_entries", "notes"),
    CreateTable("task_comments",
        Table(Own \cup Stamps \cup {"body"},
              {Cascades("task_id", "tasks"), Cascades("author_user_id", "users")}, {})),
    AddColumn("chat_threads", "title")>>

Down0002 == <<
    DropColumn("chat_threads", "title"), DropTable("task_comments"),
    DropColumn("time_entries", "notes"), DropColumn("time_entries", "source"),
    DropColumn("users", "employee_type"),
    DropRef("departments", Nulls("parent_id", "departments")), DropColumn("departments", "parent_id"),
    DropTable("tenants"), DropType("employee_type")>>

-----------------------------------------------------------------------------
(***************************************************************************)
(* app/db/models.py, class by class: what the code takes the database to   *)
(* be.                                                                     *)
(***************************************************************************)
Entity == Own \cup Stamps

Enums ==
    "user_role" :> Roles \cup {"HOD"} @@ "invite_role" :> Roles \cup {"HOD"}
    @@ "task_status" :> {"TODO", "IN_PROGRESS", "DONE", "BLOCKED"}
    @@ "ticket_status" :> {"OPEN", "IN_PROGRESS", "RESOLVED", "CLOSED"}
    @@ "break_kind" :> {"BREAK", "LUNCH"} @@ "employee_type" :> {"HUMAN", "AGENT"}

TenantModels ==
    "tenants" :> Table({"id", "name", "created_at"}, {}, {})
    @@ "departments" :> Table(Entity \cup {"name", "description"}, {Nulls("parent_id", "departments")},
                              {{"tenant_id", "name"}})

UserModel ==
    "users" :> Table(
        Entity \cup {"email", "full_name", "google_sub", "password_hash", "is_active",
                     "work_start_time", "work_end_time", "break_minutes", "lunch_minutes"},
        {Typed("role", "user_role"), Typed("employee_type", "employee_type"),
         Nulls("department_id", "departments"), Nulls("manager_id", "users")},
        {{"tenant_id", "email"}})

AccountModels ==
    "agent_profiles" :> Table(Entity \cup {"tools_allowed", "last_heartbeat_at"},
        {Cascades("user_id", "users"), Nulls("created_by_user_id", "users")}, {{"user_id"}})
    @@ "invites" :> Table(Entity \cup {"email", "full_name", "tools_allowed", "expires_at", "accepted_at"},
        {Typed("role", "invite_role"), Nulls("department_id", "departments")}
        \cup {Nulls(c, "users") : c \in {"manager_id", "invited_by_user_id", "accepted_user_id"}}, {})
    @@ "refresh_tokens" :> Table(Entity \cup {"token_hash", "expires_at", "revoked_at"},
        {Cascades("user_id", "users")}, {{"token_hash"}})
    @@ "audit_logs" :> Table(Own \cup {"created_at", "actor_user_id", "action", "target_type",
                                       "target_id", "metadata_json"}, {}, {})

TimeModels ==
    "time_entries" :> Table(
        Entity \cup {"work_date", "check_in_at", "check_out_at", "total_worked_minutes", "ot_minutes",
                     "break_minutes", "lunch_minutes", "source", "notes"},
        {Cascades("user_id", "users")}, {{"tenant_id", "user_id", "work_date"}})
    @@ "time_break_windows" :> Table(Entity \cup {"start_at", "end_at"},
        {Cascades("time_entry_id", "time_entries"), Typed("kind", "break_kind")}, {})
    @@ "agent_heartbeats" :> Table(Entity \cup {"activity"}, {Cascades("agent_user_id", "users")}, {})

WorkModels ==
    "tasks" :> Table(Entity \cup {"title", "description", "due_at", "completed_at"},
        {Typed("status", "task_status")}
        \cup {Nulls(c, "users") : c \in {"assignee_user_id", "created_by_user_id"}}, {})
    @@ "task_comments" :> Table(Entity \cup {"body"},
        {Cascades("task_id", "tasks"), Cascades("author_user_id", "users")}, {})
    @@ "helpdesk_tickets" :> Table(Entity \cup {"title", "description"},
        {Typed("status", "ticket_status"), Cascades("requested_by_user_id", "users"),
         Nulls("assigned_to_user_id", "users"), Nulls("task_id", "tasks")}, {{"task_id"}})

ChatModels ==
    "chat_threads" :> Table(Entity \cup {"is_dm", "title"}, {Cascades("created_by_user_id", "users")}, {})
    @@ "chat_thread_participants" :> Table({"tenant_id", "last_read_at", "joined_at"},
        {Cascades("thread_id", "chat_threads"), Cascades("user_id", "users")}, {{"thread_id", "user_id"}})
    @@ "chat_messages" :> Table(Entity \cup {"content"},
        {Cascades("thread_id", "chat_threads"), Cascades("sender_user_id", "users")}, {})
    @@ "announcements" :> Table(Entity \cup {"title", "body"}, {Cascades("created_by_user_id", "users")}, {})
    @@ "announcement_reads" :> Table({"tenant_id", "read_at"},
        {Cascades("announcement_id", "announcements"), Cascades("user_id", "users")},
        {{"announcement_id", "user_id"}})

LibraryModels ==
    "knowledge_categories" :> Table(Entity \cup {"name", "description"}, {}, {{"tenant_id", "name"}})
    @@ "knowledge_articles" :> Table(Entity \cup {"title", "content"},
        {Nulls("category_id", "knowledge_categories")}
        \cup {Nulls(c, "users") : c \in {"created_by_user_id", "updated_by_user_id"}}, {})
    @@ "form_templates" :> Table(Entity \cup {"name", "description", "fields_schema"},
        {Nulls("created_by_user_id", "users")}, {})
    @@ "form_submissions" :> Table(Entity \cup {"answers_encrypted"},
        {Cascades("template_id", "form_templates"), Cascades("submitted_by_user_id", "users")}, {})
    @@ "attachments" :> Table(Entity \cup {"owner_type", "owner_id", "filename", "content_type",
                                           "size_bytes", "s3_key"},
        {Nulls("created_by_user_id", "users")}, {{"s3_key"}})

Models ==
    [types |-> Enums,
     tables |-> TenantModels @@ UserModel @@ AccountModels @@ TimeModels @@ WorkModels
                @@ ChatModels @@ LibraryModels]
=============================================================================
