---------------------------- MODULE TraceTemplates ----------------------------
(***************************************************************************)
(* The 81 templates of the traces-v3 corpus                                *)
(* (packages/eval/scripts/r3/traces_v3_gen/tracegen/templates).  A         *)
(* template is a function that emits one agent session through the         *)
(* document: d.user, d.agent, d.call, d.result, d.tool.  What is kept of   *)
(* it is its control: the turns it makes, in order, the branches on the    *)
(* document's mode (d.secret_ok, d.gold_ok), the branches it takes at      *)
(* random, and which gold categories a turn always or sometimes places.    *)
(* The wording is left out.                                                *)
(***************************************************************************)
EXTENDS TraceLabels, Naturals, Sequences, SequencesExt

Modes == {"full", "no_secret", "clean"}

(* ---------- What a template is made of ---------- *)

(* A turn: who makes it, the gold categories it always asks for, and those *)
(* it asks for in some documents.                                          *)
Turn(who, sure, other) == [who |-> who, sure |-> sure, other |-> other]

(* A step of a template is the set of ways it can go: runs of turns, each  *)
(* open in some modes.                                                     *)
Way(modes, turns) == [in |-> modes, turns |-> turns]
Skip == {Way(Modes, <<>>)}

User(sure, other) == {Way(Modes, <<Turn("user", sure, other)>>)}
Agent(sure, other) == {Way(Modes, <<Turn("agent", sure, other)>>)}
Call(sure, other) == {Way(Modes, <<Turn("call", sure, other)>>)}
Result(sure, other) == {Way(Modes, <<Turn("result", sure, other)>>)}

(* d.tool is a call and its result; the pair's gold is told on the result. *)
Tool(sure, other) ==
  {Way(Modes, <<Turn("call", {}, {}), Turn("result", sure, other)>>)}

(* The same turns without gold. *)
Asks == User({}, {})
Says == Agent({}, {})
Calls == Call({}, {})
Results == Result({}, {})
Runs == Tool({}, {})

Block(steps) ==
  FoldLeft(LAMBDA done, step :
             {Way(a.in \cap b.in, a.turns \o b.turns) : a \in done, b \in step},
           Skip, steps)

(* A branch on the document's mode, and a branch taken at random. *)
Only(modes, step) == {Way(w.in \cap modes, w.turns) : w \in step}
Either(a, b) == a \cup b
Opt(step) == step \cup Skip
InFullElse(a, b) == Only({"full"}, a) \cup Only(Modes \ {"full"}, b)
InFull(step) == InFullElse(step, Skip)
WithGoldElse(a, b) == Only(Modes \ {"clean"}, a) \cup Only({"clean"}, b)
WithGold(step) == WithGoldElse(step, Skip)

(* A loop over a drawn number of records, here none, one or two. *)
Some(step) == Skip \cup step \cup Block(<<step, step>>)

Script(style, steps) == [style |-> style, steps |-> steps]

(* ---------- Configuration files (templates/t_a_config.py) ---------- *)

k8s_manifests == Script("xml", <<
  Asks, Runs, Tool({email, ip, secret}, {}), Tool({person, email}, {ip}),
  Tool({ip}, {}), Opt(Runs), Runs, Says, Runs, Runs, Opt(Says), Asks>>)

django_settings_admins == Script("md", <<
  Asks, Says, Tool({person, email, ip, secret}, {}), Says, Tool({person}, {}), Says,
  Runs, Runs, Either(Block(<<Asks, Says>>), Says)>>)

gha_deploy_failure == Script("colon", <<
  Asks, Tool({ip, secret}, {}), Tool({person, ip}, {}), Says,
  InFull(Block(<<Says, Tool({secret}, {})>>)), Says>>)

readme_maintainers == Script("box", <<
  Asks, Tool({person, email, phone, url}, {}), Tool({person}, {}),
  Opt(Tool({person, email}, {})), Says, Tool({person}, {email}), Says,
  Opt(Block(<<Asks, Says>>))>>)

dockerfile_build_args == Script("jsonl", <<
  Asks, Tool({person, email, url, secret}, {}), Tool({person, url, secret}, {}),
  Says, Tool({person, url, secret}, {}), User({secret}, {}),
  Tool({person, url, secret}, {}), Runs, Says>>)

terraform_tfvars == Script("tslog", <<
  Asks, Tool({person, email, ip, secret}, {}), Runs, Tool({person, ip}, {}), Says,
  Asks, Runs, Runs, Opt(Says)>>)

ssh_config_hosts == Script("hai", <<
  Either(
    Block(<<Asks, Tool({person, ip}, {}), Agent({person, ip}, {}), Opt(Asks)>>),
    Block(<<
      Asks, Tool({person, ip}, {mac}), Tool({person, ip}, {}), Tool({ip}, {}),
      Agent({ip}, {}), Tool({ip}, {}), Runs, Opt(Runs), Asks>>))>>)

ansible_inventory_vault == Script("irc", <<
  Asks, Tool({person, ip}, {}), Tool({person, email, phone}, {}), Runs, Says,
  Tool({person}, {}), Tool({secret}, {}), Runs, Tool({ip}, {}), Says>>)

spring_application_yml == Script("react", <<
  Asks, Says, Tool({person, email, phone, ip, secret}, {}), Runs, Says, Runs, Runs,
  InFull(Opt(Says)), Says>>)

(* ---------- Vehicles, travel, devices (templates/t_a_extra.py) ---------- *)

alpr_parking_events == Script("plain", <<
  Asks, Says, Tool({vehicle}, {account}), Says,
  Tool({person, email, date, account, vehicle}, {}), Runs, Says, Runs, Runs,
  Opt(Tool({vehicle}, {})), Says, Opt(Asks)>>)

travel_booking_pnr == Script("react", <<
  Asks, Tool({person, email, date, passport}, {phone, account}), Tool({person}, {}),
  Runs, Says, Runs, Runs, Opt(Agent({person}, {})), Says>>)

mdm_device_inventory == Script("aider", <<
  Asks, Tool({person, email, mac, geo}, {phone}), Runs, Tool({}, {person, email}),
  Says, Opt(Block(<<Asks, Agent({email}, {})>>))>>)

(* ---------- Files in the repository (templates/t_a_files.py) ---------- *)

env_db_connect == Script("cc", <<
  Asks, Says, Tool({person, email, ip, secret}, {}), Says, Runs,
  Opt(Tool({ip}, {email})), Tool({ip}, {}), Says, User({}, {secret}),
  Tool({}, {ip, secret}), InFull(Opt(Says)), Says>>)

(* ---------- Shell sessions (templates/t_b_shell.py) ---------- *)

ip_addr_network_debug == Script("steps", <<
  User({url}, {}), Says, Tool({ip, mac}, {}), Tool({ip}, {email}),
  Either(
    Block(<<Says, Tool({ip}, {}), Tool({ip}, {}), Says, Asks, Agent({ip}, {})>>),
    Either(
      Block(<<
        Tool({ip}, {}), Tool({ip}, {}), Says, Tool({person, ip}, {}), Says, Asks,
        Runs, Runs>>),
      Block(<<
        Tool({ip}, {}), Says, Tool({ip}, {}), Says, Tool({ip}, {}), Tool({ip}, {})>>))),
  Opt(Block(<<Asks, Tool({ip, mac}, {}), Says>>))>>)

home_disk_cleanup == Script("aider", <<
  Asks, Runs, Tool({person}, {}), Says, Tool({person}, {}), Tool({person}, {}),
  Says, Tool({person, email, phone, address}, {account}), Says, Asks,
  Tool({person}, {}), Runs, Says>>)

docker_logs_container == Script("plain", <<
  Asks, Runs, Tool({email, ip}, {}), Says, Tool({email, ip, mac, secret}, {}), Says,
  InFull(Says), Asks>>)

kubectl_pod_debug == Script("cc", <<
  Asks, Tool({ip}, {}), Tool({ip}, {}), Tool({}, {email, ip}), Says,
  Tool({secret}, {}),
  Either(Block(<<Says, Runs>>), Block(<<Tool({secret}, {}), Says>>)), Asks, Runs,
  Says>>)

psql_user_lookup == Script("xml", <<
  User({person, email}, {}), Opt(Runs), Tool({person, email, phone, date, ip}, {}),
  Either(
    Block(<<Says, Tool({ip}, {}), Says, Asks, Runs>>),
    Either(
      Block(<<Says, Tool({email}, {}), Says, Asks, Tool({email}, {})>>),
      Block(<<Says, Asks>>))),
  Agent({person}, {})>>)

redis_sessions == Script("md", <<
  Asks, Says, Tool({ip, secret}, {}), Tool({ip, secret}, {}),
  InFullElse(Tool({ip, secret}, {}), Block(<<Tool({}, {ip}), Tool({}, {ip})>>)),
  Tool({person, email, ip, secret}, {}), Tool({ip, secret}, {}),
  Opt(Tool({ip, secret}, {})),
  Either(
    Block(<<Says, Asks, Tool({ip, secret}, {})>>),
    Block(<<Says, Tool({secret}, {}), Says, InFull(Says), Tool({secret}, {})>>)),
  Says>>)

aws_cli_keys == Script("colon", <<
  User({email}, {}), Tool({person}, {}), Tool({person, secret}, {}), Runs, Says,
  Tool({secret}, {}), InFull(Says), Tool({person, ip, secret}, {}), Says, Asks,
  Tool({person, secret}, {}), Tool({person, secret}, {}),
  Opt(Block(<<Runs, Says>>)), Says>>)

npm_publish_auth == Script("jsonl", <<
  Asks, Tool({person}, {}), Says, Tool({person, email, secret}, {}), Opt(Runs),
  Tool({person, email, url}, {}),
  Either(
    Block(<<Runs, Says, Asks, Tool({person}, {})>>),
    Block(<<Says, User({secret}, {}), Tool({person, secret}, {})>>)),
  Runs, Says>>)

shell_history_audit == Script("tslog", <<
  Asks, Tool({person}, {}), Opt(Tool({}, {person, ip})),
  Tool({secret}, {person, email, url, ip}), Says, Asks, Tool({person}, {}), Runs,
  Says>>)

cron_systemd_backup == Script("box", <<
  Asks, Tool({person, email}, {}), Says, Runs, Tool({}, {ip}),
  Tool({person, email, ip, secret}, {}),
  Either(Block(<<Says, Tool({ip, secret}, {})>>), Block(<<Tool({}, {ip}), Says>>)),
  InFull(Says), Says, Asks>>)

mysql_dump_restore == Script("hai", <<
  Asks, Tool({person}, {}),
  Tool({person, email, phone, address, date, ip, account}, {}), Tool({secret}, {}),
  Opt(Block(<<Says, Tool({secret}, {})>>)), Tool({secret}, {}), Says, Runs, Asks,
  Tool({secret}, {}), Says>>)

ssh_keygen_deploy_key == Script("irc", <<
  Asks, Tool({person, email}, {}),
  Opt(Block(<<Tool({secret}, {}), Says, Tool({email}, {})>>)), Tool({email}, {}),
  Opt(Block(<<User({secret}, {}), Says, Tool({email}, {})>>)), Runs,
  Opt(Tool({person}, {})), Runs, Says, Tool({}, {ip}), Says, Asks>>)

(* ---------- Git sessions (templates/t_c_git.py) ---------- *)

git_log_changelog == Script("react", <<
  Asks, Says, Runs, Tool({}, {person, email}),
  WithGold(Opt(Block(<<Says, Tool({person}, {})>>))), Tool({url}, {person}), Says>>)

git_blame_regression == Script("steps", <<
  Asks, Says, Runs, Tool({person}, {}), Says, Tool({person, email}, {url}), Runs,
  Says, Says, Runs, Runs, Agent({}, {person})>>)

git_diff_staged_secret == Script("aider", <<
  Asks, Runs, Tool({person, email, phone, address, date, account, secret}, {ip}),
  InFull(Says), Opt(Block(<<Says, Asks, Runs, Runs, Says>>)), Says, Asks, Runs,
  InFull(Runs), Runs, Runs, Says>>)

git_bisect_session == Script("plain", <<
  Asks, Opt(Tool({person}, {})), Runs, Tool({person, email}, {}), Runs, Runs, Says,
  Opt(Block(<<Asks, Runs, Runs, Says>>))>>)

git_shortlog_mailmap == Script("cc", <<
  Asks, Tool({person, email}, {}), Tool({}, {person, email}),
  Tool({person, email}, {}), Opt(Tool({person, email}, {})),
  Tool({person, email}, {}), Says>>)

git_rebase_conflict == Script("xml", <<
  Asks, Runs, Tool({email, ip, secret}, {}), Runs, Tool({person, email}, {}), Says,
  Tool({email, ip, secret}, {}), Runs, InFull(Opt(Says)), Says>>)

git_remote_push_auth == Script("md", <<
  Asks, Tool({person, url}, {}), Tool({person, url, secret}, {}),
  Tool({person, email, url, secret}, {}), Opt(Tool({person, secret}, {})), Says,
  Asks, Tool({person, url}, {}), Tool({url}, {}), InFull(Says), Says>>)

git_show_commit_metadata == Script("colon", <<
  Asks, Tool({person, email}, {}), Tool({person, email}, {}),
  Tool({person, email, phone, url, ip, secret}, {}), Agent({person}, {}), Asks,
  Tool({ip}, {}), Says>>)

pr_review_thread == Script("jsonl", <<
  Asks, Tool({person, email, phone, address, account}, {}), Opt(Tool({url}, {})),
  Tool({person, email, phone, address, account}, {}), Says, Runs, Runs, Runs,
  Tool({person, url}, {}), WithGold(Says), Says>>)

git_filter_repo_purge == Script("tslog", <<
  Asks, Runs, Tool({person, email, phone, ip, secret}, {}), InFull(Says), Runs,
  Runs, Says, Tool({person, email}, {}), WithGold(Opt(Tool({person}, {}))),
  Agent({email}, {}), Either(Block(<<Asks, Tool({url}, {}), Says>>), Asks)>>)

git_format_patch_email == Script("box", <<
  Asks, Runs, Tool({person, email}, {}), Tool({person, email}, {}), Says,
  Tool({person, email}, {}), Says, Asks>>)

(* ---------- Stack traces (templates/t_d_traces.py) ---------- *)

pytest_showlocals == Script("box", <<
  Asks, Tool({person, email, address, date, account}, {phone}), Says,
  Tool({person, email, address, date, account}, {phone}), Runs, Says, Runs, Runs,
  WithGold(Opt(Block(<<Says, Asks, Tool({person, email, date, account}, {})>>))),
  Says>>)

jest_snapshot_user == Script("hai", <<
  Asks, Says, Tool({person, email, phone, address}, {}),
  WithGoldElse(
    Tool({person, email, phone, address, date}, {account}),
    Opt(Tool({person, email, phone, address, date}, {account}))),
  Either(Block(<<Says, Runs>>), Says),
  WithGold(Block(<<Says, Opt(Block(<<Asks, Tool({person, email, phone}, {})>>))>>)),
  Runs, Says>>)

java_spring_exception_mdc == Script("irc", <<
  Asks, Says, Tool({email, ip, account}, {}), Says, Runs, Runs,
  Opt(Block(<<Says, Runs>>)), Runs, Says>>)

go_panic_request == Script("react", <<
  Asks, Says, Tool({person}, {}),
  Opt(Block(<<Says, Tool({person, email, phone, ip, secret}, {})>>)), Runs, Says,
  Runs, Runs, Runs, Says>>)

rspec_factory_failure == Script("steps", <<
  Asks, Tool({person}, {}), Says, Tool({person, email, phone, address, date}, {}),
  Says, Opt(Tool({person, email, phone, address, account}, {})), Says, Runs, Runs,
  Says>>)

dotnet_appsettings_test == Script("aider", <<
  Asks, Tool({person, email, date, account}, {}), Says,
  Tool({url, ip, secret}, {email}), Says, Runs, Runs,
  InFull(Block(<<Says, Opt(Asks)>>)), Says>>)

php_laravel_log == Script("plain", <<
  Asks, Tool({email, ip}, {}), Says, Tool({email, ip, secret}, {}), Says,
  User({secret}, {}), Tool({email}, {}), Runs, Says>>)

rust_cargo_build == Script("cc", <<
  Asks, Tool({person}, {}), Says, Runs, Tool({person, email, mac, geo}, {ip}), Says,
  Runs, Tool({person, email, url}, {}), Tool({person, email}, {}), Runs, Says>>)

android_crash_location == Script("xml", <<
  Asks, Tool({person, email, mac, account, vehicle, geo}, {}), Says, Runs, Runs,
  WithGold(Opt(Block(<<Says, Runs>>))), Runs, Says>>)

sentry_issue_event == Script("md", <<
  User({}, {secret}), Tool({url}, {secret}), Says,
  Tool({person, email, address, url, ip, secret}, {}), Says, Runs, Runs, Runs, Says,
  Opt(Block(<<Says, Tool({}, {secret})>>))>>)

python_celery_retry == Script("colon", <<
  Asks, Says, Tool({person, email, account}, {}), Says, Tool({email, secret}, {}),
  Tool({email, secret}, {}), Says, Asks, Runs, Opt(Block(<<Says, Runs>>)), Says>>)

(* ---------- Logs (templates/t_e_logs.py) ---------- *)

nginx_access_top_ips == Script("colon", <<
  Asks, Says, Tool({ip}, {person, url}), Says, Tool({ip}, {}), Opt(Tool({ip}, {})),
  Some(Tool({ip}, {})), Opt(Block(<<Says, Tool({ip}, {}), Tool({ip}, {})>>)), Says>>)

postgres_slow_query_log == Script("jsonl", <<
  Asks, Says, Tool({email, ip}, {person, phone, account}), Says, Tool({email}, {}),
  Runs, Says, Runs, Opt(Tool({email}, {})), Says>>)

sshd_auth_journal == Script("tslog", <<
  Asks, Tool({person, ip}, {}), Says, Tool({person, ip}, {}),
  Either(Block(<<Tool({person}, {}), Says, Asks, Tool({person}, {})>>), Says),
  Opt(Tool({ip}, {})), Runs, Says>>)

json_logs_jq == Script("box", <<
  User({email}, {}), Tool({email, ip, account, geo}, {address}), Says,
  Tool({email, ip}, {address}),
  Either(Block(<<Runs, Says, Runs>>), Block(<<Says, Runs>>)), Asks, Runs, Says>>)

dhcp_leases_mac == Script("hai", <<
  Asks, Tool({ip, mac}, {}), Tool({ip, mac}, {}),
  Tool({person, email, ip, mac}, {}), Says, Asks, Tool({mac}, {}), Runs, Says>>)

fleet_telematics == Script("irc", <<
  Asks, Tool({person, license, vehicle, geo}, {}),
  Tool({person, phone, vehicle, geo}, {}), Runs, Says, Runs, Runs,
  WithGold(Opt(Says)), Asks>>)

audit_log_admin_actions == Script("react", <<
  Asks, Says, Calls, Result({email, ip, account}, {address, passport}), Says,
  Tool({email}, {}), Tool({person}, {ip}), Says>>)

mail_server_bounce == Script("steps", <<
  Asks, Tool({email, ip}, {}), Tool({email, ip}, {}),
  Either(
    Block(<<Tool({ip}, {}), Agent({ip}, {})>>), Either(Says, Block(<<Says, Runs>>))),
  Asks>>)

iot_device_registry == Script("aider", <<
  Asks, Calls, Result({person, email, phone, address, mac, geo}, {}),
  Tool({}, {ip}), Tool({ip, mac}, {}), Says, Runs,
  WithGold(Opt(Block(<<Asks, Says>>)))>>)

vpn_access_log == Script("plain", <<
  Asks, Tool({person, ip}, {}), Tool({ip}, {}),
  Tool({person, email, ip, secret}, {}), Agent({person, ip}, {}),
  Tool({person, ip}, {}), Runs, Says>>)

k8s_events_ingress == Script("cc", <<
  Asks, Says, Tool({ip}, {url}), Says, Runs, Runs, Opt(Tool({email}, {})), Says,
  Runs, Runs, Says>>)

(* ---------- HTTP sessions (templates/t_f_http.py) ---------- *)

curl_verbose_profile == Script("cc", <<
  User({account}, {}), Says,
  Tool({url, ip, account, secret}, {person, email, phone, address, date}),
  Either(
    Block(<<
      Says, Tool({person, email, url, account}, {}), Opt(Runs), Says, Runs,
      Opt(
        Block(<<
          Asks, Tool({person, email, phone, address, date, url, account}, {})>>))>>),
    Block(<<Says, Opt(Block(<<Runs, Says>>)), Runs, Tool({date, url}, {})>>)),
  Opt(Says), Says>>)

stripe_webhook_debug == Script("xml", <<
  Asks, Says, Runs, Tool({email, secret}, {ip}), InFull(Opt(Says)), Says,
  Tool({secret}, {}), Tool({person, email, phone, address}, {account}), Runs, Says,
  Runs, Runs, Says>>)

har_cookie_analysis == Script("md", <<
  Asks, Says, Tool({email, url}, {}), Says, Tool({email, url, ip, secret}, {}),
  Tool({secret}, {}), Says, Runs, Either(Runs, Block(<<Says, Runs>>)), Says,
  Opt(Asks)>>)

graphql_customer_query == Script("colon", <<
  User({account}, {}), Call({secret}, {}),
  Result({person, email, phone, address, account}, {}), Says, Runs, Runs, Says,
  Runs, Runs, Opt(Runs), Says>>)

oauth_callback_debug == Script("jsonl", <<
  Asks, Says, Tool({email, url, ip, account, secret}, {}), Says, User({secret}, {}),
  Call({secret}, {}), Result({secret}, {}), Runs, Runs, Says, InFull(Says)>>)

kyc_api_integration == Script("tslog", <<
  Asks, Says, Runs, Says, Tool({person, address, date, url, account, passport}, {}),
  Says, Runs, Opt(Runs), Runs, Opt(Block(<<Asks, Runs, Says>>)), Says>>)

rest_client_pagination == Script("box", <<
  Asks, Tool({url}, {secret}), InFull(Opt(Says)), Tool({person, email}, {phone}),
  Says, Tool({url}, {}), Says, Says, Runs, Tool({person, email}, {phone}), Says,
  Opt(Asks)>>)

webhook_signature_slack == Script("hai", <<
  Asks, Runs, Opt(Tool({person, secret}, {})), Tool({ip, secret}, {person, email}),
  Says, Runs, Opt(Runs),
  Opt(Block(<<Asks, Tool({person, email, phone}, {}), Says>>)), Says>>)

postman_collection_env == Script("irc", <<
  Asks, Tool({email, url, account, secret}, {}), Says, Tool({url}, {}), Says,
  Tool({}, {url}), Asks, Tool({person, email, phone, address, url, account}, {}),
  Says>>)

soap_xml_insurance == Script("react", <<
  Asks, Says, Tool({person, address, date, account, secret}, {}), Says,
  Call({url}, {}), Results, Says, Runs, Runs, Runs, Tool({date, account}, {}),
  Tool({person, address, date, url, account, license, vehicle}, {}), Says>>)

httpie_booking_api == Script("steps", <<
  Asks, Tool({person, email, phone, date, account, passport}, {}), Opt(Says), Calls,
  Result({}, {phone, date, passport}), Runs, Says, Runs,
  Tool({person, email, date}, {}), Opt(Runs), Says>>)

(* ---------- Tickets and tables (templates/t_g_tickets.py) ---------- *)

github_issue_bug_report == Script("steps", <<
  Asks, Says, Tool({person, email}, {ip, secret}), Opt(Says), Says,
  Tool({person}, {}), Says, Runs, Runs, Agent({person}, {})>>)

jira_refund_ticket == Script("aider", <<
  Asks, Tool({person, phone, account}, {email}), Opt(Tool({person, account}, {})),
  Opt(Runs), Runs, Says, Runs, Says, Runs, Runs, Says, Asks>>)

support_email_thread == Script("plain", <<
  User({person, email, address, date}, {phone}), Opt(Agent({person, address}, {})),
  Says, Runs, Says, Agent({person, address}, {}), Opt(Asks)>>)

slack_incident_thread == Script("cc", <<
  User({person, ip, secret}, {}), Says, Runs, Runs, Says>>)

hr_onboarding_accounts == Script("xml", <<
  Asks, Tool({person, email, phone, date, account}, {passport}), Runs, Says,
  Tool({person, email, phone, date, account}, {}), Tool({email, date, account}, {}),
  Says, Asks, Tool({email, secret}, {}), Says, Opt(Runs)>>)

gdpr_dsar_deletion == Script("md", <<
  User({person, email, address, account}, {}), Says,
  Tool({person, email, account}, {}), Runs, Tool({address}, {}),
  Opt(Tool({ip}, {})),
  Either(
    Block(<<Tool({email}, {}), Says, Either(Block(<<Asks, Runs>>), Asks)>>),
    Block(<<Runs, Says>>)),
  Agent({person, account}, {})>>)

clinic_appointment_bug == Script("colon", <<
  User({person, phone, date}, {}), Runs, Runs, Tool({person, phone, date}, {}),
  Says, Runs, Runs, Runs, Runs,
  Opt(Block(<<Says, Tool({person, phone, date}, {})>>)), Says>>)

secret_scanner_triage == Script("jsonl", <<
  Asks, Tool({person, email, secret}, {}), Opt(Runs), Says, Opt(Runs),
  Either(Block(<<Says, Asks>>), Says)>>)

payroll_sepa_xml == Script("tslog", <<
  User({person, phone}, {}), Says, Tool({person, account}, {}),
  Tool({}, {person, account}), Says, Runs, Runs, Agent({person}, {})>>)

pandas_notebook_cleaning == Script("box", <<
  Asks, Runs, Tool({person, email, phone, address, date, account}, {}), Opt(Runs),
  Tool({person}, {}), Says, Tool({person, email, address, date, account}, {}),
  WithGold(Opt(Tool({person, email, date, account}, {}))), Says, Runs, Runs, Says,
  Opt(Says)>>)

insurance_claim_parser == Script("hai", <<
  User({person, phone, address, date, license, vehicle, geo}, {}),
  Opt(Block(<<Says, Tool({geo}, {})>>)), Runs, Tool({person}, {}), Says, Runs,
  Tool({person, date, license, vehicle, geo}, {}), Runs, Says>>)

csv_customer_import == Script("irc", <<
  Asks, Tool({person}, {}), Runs,
  Tool({person, email, phone, address, account}, {}), Runs, Says, Runs,
  Tool({person}, {}), Says, Opt(Asks)>>)


(* ---------- The registry (load_all) ---------- *)

Registry ==
  [k8s_manifests |-> k8s_manifests,
   django_settings_admins |-> django_settings_admins,
   gha_deploy_failure |-> gha_deploy_failure,
   readme_maintainers |-> readme_maintainers,
   dockerfile_build_args |-> dockerfile_build_args,
   terraform_tfvars |-> terraform_tfvars,
   ssh_config_hosts |-> ssh_config_hosts,
   ansible_inventory_vault |-> ansible_inventory_vault,
   spring_application_yml |-> spring_application_yml,
   alpr_parking_events |-> alpr_parking_events,
   travel_booking_pnr |-> travel_booking_pnr,
   mdm_device_inventory |-> mdm_device_inventory,
   env_db_connect |-> env_db_connect,
   ip_addr_network_debug |-> ip_addr_network_debug,
   home_disk_cleanup |-> home_disk_cleanup,
   docker_logs_container |-> docker_logs_container,
   kubectl_pod_debug |-> kubectl_pod_debug,
   psql_user_lookup |-> psql_user_lookup,
   redis_sessions |-> redis_sessions,
   aws_cli_keys |-> aws_cli_keys,
   npm_publish_auth |-> npm_publish_auth,
   shell_history_audit |-> shell_history_audit,
   cron_systemd_backup |-> cron_systemd_backup,
   mysql_dump_restore |-> mysql_dump_restore,
   ssh_keygen_deploy_key |-> ssh_keygen_deploy_key,
   git_log_changelog |-> git_log_changelog,
   git_blame_regression |-> git_blame_regression,
   git_diff_staged_secret |-> git_diff_staged_secret,
   git_bisect_session |-> git_bisect_session,
   git_shortlog_mailmap |-> git_shortlog_mailmap,
   git_rebase_conflict |-> git_rebase_conflict,
   git_remote_push_auth |-> git_remote_push_auth,
   git_show_commit_metadata |-> git_show_commit_metadata,
   pr_review_thread |-> pr_review_thread,
   git_filter_repo_purge |-> git_filter_repo_purge,
   git_format_patch_email |-> git_format_patch_email,
   pytest_showlocals |-> pytest_showlocals,
   jest_snapshot_user |-> jest_snapshot_user,
   java_spring_exception_mdc |-> java_spring_exception_mdc,
   go_panic_request |-> go_panic_request,
   rspec_factory_failure |-> rspec_factory_failure,
   dotnet_appsettings_test |-> dotnet_appsettings_test,
   php_laravel_log |-> php_laravel_log,
   rust_cargo_build |-> rust_cargo_build,
   android_crash_location |-> android_crash_location,
   sentry_issue_event |-> sentry_issue_event,
   python_celery_retry |-> python_celery_retry,
   nginx_access_top_ips |-> nginx_access_top_ips,
   postgres_slow_query_log |-> postgres_slow_query_log,
   sshd_auth_journal |-> sshd_auth_journal,
   json_logs_jq |-> json_logs_jq,
   dhcp_leases_mac |-> dhcp_leases_mac,
   fleet_telematics |-> fleet_telematics,
   audit_log_admin_actions |-> audit_log_admin_actions,
   mail_server_bounce |-> mail_server_bounce,
   iot_device_registry |-> iot_device_registry,
   vpn_access_log |-> vpn_access_log,
   k8s_events_ingress |-> k8s_events_ingress,
   curl_verbose_profile |-> curl_verbose_profile,
   stripe_webhook_debug |-> stripe_webhook_debug,
   har_cookie_analysis |-> har_cookie_analysis,
   graphql_customer_query |-> graphql_customer_query,
   oauth_callback_debug |-> oauth_callback_debug,
   kyc_api_integration |-> kyc_api_integration,
   rest_client_pagination |-> rest_client_pagination,
   webhook_signature_slack |-> webhook_signature_slack,
   postman_collection_env |-> postman_collection_env,
   soap_xml_insurance |-> soap_xml_insurance,
   httpie_booking_api |-> httpie_booking_api,
   github_issue_bug_report |-> github_issue_bug_report,
   jira_refund_ticket |-> jira_refund_ticket,
   support_email_thread |-> support_email_thread,
   slack_incident_thread |-> slack_incident_thread,
   hr_onboarding_accounts |-> hr_onboarding_accounts,
   gdpr_dsar_deletion |-> gdpr_dsar_deletion,
   clinic_appointment_bug |-> clinic_appointment_bug,
   secret_scanner_triage |-> secret_scanner_triage,
   payroll_sepa_xml |-> payroll_sepa_xml,
   pandas_notebook_cleaning |-> pandas_notebook_cleaning,
   insurance_claim_parser |-> insurance_claim_parser,
   csv_customer_import |-> csv_customer_import]

===============================================================================
