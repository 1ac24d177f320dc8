--------------------------- MODULE KnowledgeHub -----------------------------
(***************************************************************************)
(* The Knowledge Hub: what it holds, and its screens.                      *)
(***************************************************************************)
EXTENDS Sequences, TLC, Naturals, SequencesExt

(***************************************************************************)
(* What core/cheatsheets ships: the cheatsheet pages, of each section the  *)
(* commands it documents, and the external links, of each its kind, its    *)
(* tags and whether it is a directory.  Descriptions, examples and         *)
(* addresses are left out.                                                 *)
(***************************************************************************)

Section(title, commands) == [title |-> title, commands |-> commands]
Page(id, sections) == [id |-> id, sections |-> sections]
L(name, tags) == [name |-> name, tags |-> tags, isDirectory |-> FALSE]
D(name, tags) == [name |-> name, tags |-> tags, isDirectory |-> TRUE]
Of(type, links) == [k \in DOMAIN links |-> links[k] @@ [type |-> type]]

RESOURCE_TYPES ==
    <<"documentation", "curatedList", "exercise", "roadmap", "catalog", "mcpServer", "aiFramework", "aiApp", "aiSkill",
      "automation", "aiModel", "devService">>

-----------------------------------------------------------------------------
GitPage == <<
    Section("Setup & Cloning", <<"git init", "git clone">>),
    Section("Staging & Committing", <<"git status", "git add", "git commit">>),
    Section("Branching & Merging", <<"git branch", "git checkout", "git switch", "git merge", "git rebase">>),
    Section("Inspecting History", <<"git log", "git diff">>),
    Section("Undoing Changes", <<"git stash", "git reset", "git revert">>),
    Section("Remote Repositories", <<"git push", "git pull", "git fetch", "git remote">>),
    Section("Tagging", <<"git tag">>)>>

RegexBasics == <<
    Section("Character Classes", <<".", "\\d", "\\D", "\\w", "\\W", "\\s", "\\S", "[...]">>),
    Section("Anchors", <<"^", "$", "\\b">>),
    Section("Quantifiers", <<"*", "+", "?", "{n,m}", "*? / +?">>)>>

RegexRest == <<
    Section("Groups & Alternation", <<"(...)", "(?:...)", "|", "(?<name>...)">>),
    Section("Lookaround", <<"(?=...)", "(?!...)", "(?<=...)", "(?<!...)">>)>>

RegexPage == RegexBasics \o RegexRest

SysctlPage == <<
    Section("Network Core (net.core.*)", <<"net.core.somaxconn", "net.core.rmem_max", "net.core.wmem_max",
        "net.core.default_qdisc", "net.core.netdev_max_backlog">>),
    Section("Network TCP (net.ipv4.*)", <<"net.ipv4.tcp_max_syn_backlog", "net.ipv4.tcp_tw_reuse",
        "net.ipv4.tcp_congestion_control", "net.ipv4.tcp_rmem", "net.ipv4.tcp_wmem", "net.ipv4.tcp_fin_timeout",
        "net.ipv4.ip_forward", "net.ipv4.tcp_keepalive_time">>),
    Section("Virtual Memory (vm.*)", <<"vm.swappiness", "vm.dirty_ratio", "vm.dirty_background_ratio",
        "vm.vfs_cache_pressure", "vm.overcommit_memory">>),
    Section("File System (fs.*)", <<"fs.file-max", "fs.inotify.max_user_watches">>),
    Section("Kernel (kernel.*)", <<"kernel.pid_max", "kernel.panic">>)>>

CrontabPage == <<
    Section("The 5 Fields (minute hour day month weekday)", <<"minute", "hour", "day of month", "month", "day of week">>),
    Section("Special Characters", <<"*", ",", "-", "/">>),
    Section("Nickname Shortcuts", <<"@reboot", "@yearly / @annually", "@monthly", "@weekly", "@daily / @midnight",
        "@hourly">>),
    Section("Worked Examples", <<"Every 15 minutes", "Every weekday at 9am", "Every Sunday at midnight",
        "First day of every month at 3am", "Every 5 minutes, business hours, weekdays", "Twice a day at 6am and 6pm">>)>>

ChmodPage == <<
    Section("Octal Digit -> rwx", <<"0", "1", "2", "3", "4", "5", "6", "7">>),
    Section("How the Three Digits Work", <<"1st digit", "2nd digit", "3rd digit">>),
    Section("Common Combinations", <<"644", "755", "600", "700", "400", "750", "666", "777">>)>>

HttpSuccess == <<
    Section("1xx - Informational", <<"100", "101">>),
    Section("2xx - Success", <<"200", "201", "202", "204", "206">>),
    Section("3xx - Redirection", <<"301", "302", "303", "304", "307", "308">>)>>

HttpErrors == <<
    Section("4xx - Client Error", <<"400", "401", "403", "404", "405", "408", "409", "410", "413", "414", "415",
        "418", "422", "425", "429", "431", "451">>),
    Section("5xx - Server Error", <<"500", "501", "502", "503", "504", "505", "507", "511">>)>>

HttpStatusPage == HttpSuccess \o HttpErrors

CommonPorts == <<
    Section("Web", <<"80/tcp", "443/tcp", "3000/tcp", "8080/tcp", "8443/tcp">>),
    Section("Mail", <<"25/tcp", "465/tcp", "587/tcp", "110/tcp", "995/tcp", "143/tcp", "993/tcp">>),
    Section("Databases", <<"3306/tcp", "5432/tcp", "6379/tcp", "27017/tcp", "1521/tcp">>)>>

ServicePorts == <<
    Section("Remote Access", <<"22/tcp", "3389/tcp", "5900/tcp">>),
    Section("Infrastructure & Monitoring", <<"53/tcp+udp", "123/udp", "161/udp", "162/udp", "389/tcp", "636/tcp",
        "111/tcp+udp", "2049/tcp+udp", "5672/tcp", "9092/tcp", "2379/tcp", "2380/tcp", "6443/tcp", "10250/tcp",
        "9090/tcp", "9100/tcp">>)>>

CommonPortsPage == CommonPorts \o ServicePorts

DockerPage == <<
    Section("Images", <<"docker build", "docker images", "docker pull", "docker push", "docker rmi", "docker tag">>),
    Section("Containers", <<"docker run", "docker ps", "docker exec", "docker logs", "docker stop / start / restart",
        "docker rm", "docker inspect">>),
    Section("Volumes & Networks", <<"docker volume create/ls/rm", "-v host:container", "docker network create/ls/rm">>),
    Section("Compose", <<"docker compose up -d", "docker compose down", "docker compose logs -f", "docker compose ps">>),
    Section("Cleanup", <<"docker system prune", "docker container prune">>)>>

TerraformPage == <<
    Section("Core Workflow", <<"terraform init", "terraform plan", "terraform apply", "terraform destroy",
        "terraform fmt", "terraform validate">>),
    Section("State", <<"terraform state list", "terraform state show", "terraform state mv", "terraform state rm",
        "terraform import">>),
    Section("Workspaces & Variables", <<"terraform workspace new/list/select", "-var / -var-file", "terraform output">>)>>

AnsiblePage == <<
    Section("Ad-hoc Commands", <<"ansible all -m ping", "ansible <group> -m shell -a", "ansible <group> -m copy -a",
        "ansible <group> -m apt/yum -a">>),
    Section("Playbooks", <<"ansible-playbook", "--check", "--limit", "--tags / --skip-tags", "-K / --ask-become-pass">>),
    Section("Inventory", <<"-i inventory.ini", "ansible-inventory --list">>),
    Section("Vault", <<"ansible-vault create", "ansible-vault edit", "ansible-vault view", "--vault-password-file">>)>>

KubernetesPage == <<
    Section("Inspecting Resources", <<"kubectl get", "kubectl describe", "kubectl logs", "kubectl get events">>),
    Section("Changing State", <<"kubectl apply -f", "kubectl delete", "kubectl scale", "kubectl rollout status/undo",
        "kubectl edit">>),
    Section("Interacting with Pods", <<"kubectl exec", "kubectl port-forward", "kubectl cp">>),
    Section("Contexts & Namespaces", <<"kubectl config get-contexts", "kubectl config use-context", "-n / --namespace">>)>>

PowershellPage == <<
    Section("Navigation & Files", <<"Get-ChildItem (gci, ls, dir)", "Get-Content (gc, cat)", "Set-Location (cd)",
        "Copy-Item / Move-Item / Remove-Item", "New-Item">>),
    Section("Processes & Services", <<"Get-Process (ps)", "Stop-Process", "Get-Service",
        "Start-Service / Stop-Service / Restart-Service">>),
    Section("Pipeline Basics", <<"Where-Object (?)", "Select-Object (select)", "ForEach-Object (%)", "Sort-Object">>),
    Section("Remoting & Modules", <<"Enter-PSSession", "Invoke-Command", "Get-Help", "Import-Module">>)>>

WindowsCmdPage == <<
    Section("Files & Navigation", <<"dir", "cd", "copy / xcopy / robocopy", "del / rmdir">>),
    Section("Networking", <<"ipconfig", "netstat", "ping / tracert", "nslookup">>),
    Section("Processes & Services", <<"tasklist", "taskkill", "sc query / sc start / sc stop">>),
    Section("System & Registry", <<"systeminfo", "reg query / reg add", "whoami /all">>)>>

LinuxCommandsPage == <<
    Section("Files & Directories", <<"ls -la", "find", "grep -rn", "tar", "ln -s">>),
    Section("Processes", <<"ps aux", "top / htop", "kill / kill -9", "jobs / bg / fg / nohup",
        "systemctl status/restart">>),
    Section("Permissions", <<"chmod", "chown", "sudo -u">>),
    Section("Disk & Network Inspection", <<"df -h", "du -sh", "ss -tulpn", "journalctl -u">>),
    Section("Packages", <<"apt update / apt install", "dnf install / yum install">>)>>

IptablesPage == <<
    Section("Listing & Flushing", <<"iptables -L -v -n", "iptables -t nat -L -v -n", "iptables -F", "iptables -Z">>),
    Section("Adding & Removing Rules", <<"iptables -A", "iptables -I", "iptables -D", "iptables -R">>),
    Section("Common Matches", <<"-s / -d", "-p tcp --dport", "-m state --state ESTABLISHED,RELATED", "-i / -o">>),
    Section("Policies & NAT", <<"iptables -P", "-j MASQUERADE", "-j DNAT --to-destination">>),
    Section("Persistence", <<"iptables-save", "iptables-restore">>)>>

NginxPage == <<
    Section("Service Management", <<"nginx -t", "systemctl reload nginx", "systemctl restart nginx",
        "nginx -s reload", "journalctl -u nginx -f">>),
    Section("Server Blocks & Locations", <<"listen", "server_name", "root / index", "location ^~ / = / ~ /",
        "try_files">>),
    Section("Reverse Proxy", <<"proxy_pass", "proxy_set_header", "proxy_http_version", "proxy_read_timeout">>),
    Section("SSL/TLS", <<"ssl_certificate / ssl_certificate_key", "ssl_protocols",
        "ssl_session_cache / ssl_session_timeout">>),
    Section("Redirects, Logging & Debug", <<"return 301", "access_log / error_log", "client_max_body_size">>)>>

ApachePage == <<
    Section("Service Management", <<"apachectl configtest", "systemctl reload apache2", "a2ensite / a2dissite",
        "a2enmod / a2dismod", "apache2ctl -M">>),
    Section("VirtualHost & Access Control", <<"ServerName / ServerAlias", "DocumentRoot",
        "<Directory> / AllowOverride", "Require all granted / denied">>),
    Section("Reverse Proxy", <<"ProxyPass / ProxyPassReverse", "ProxyPreserveHost On", "ProxyRequests Off">>),
    Section("SSL/TLS & Redirects", <<"SSLEngine on", "SSLCertificateFile / SSLCertificateKeyFile",
        "Redirect permanent", "RewriteEngine / RewriteRule">>),
    Section("Logging", <<"ErrorLog / LogLevel", "CustomLog">>)>>

CHEATSHEET_PAGES == <<
    Page("git", GitPage), Page("regex", RegexPage), Page("sysctl", SysctlPage), Page("crontab", CrontabPage),
    Page("chmod", ChmodPage), Page("http-status", HttpStatusPage), Page("common-ports", CommonPortsPage),
    Page("docker", DockerPage), Page("terraform", TerraformPage), Page("ansible", AnsiblePage),
    Page("kubernetes", KubernetesPage), Page("powershell", PowershellPage), Page("windows-cmd", WindowsCmdPage),
    Page("linux-commands", LinuxCommandsPage), Page("iptables", IptablesPage), Page("nginx", NginxPage),
    Page("apache", ApachePage)>>

OfficialDocs ==
    Of("documentation", <<
        L("Zabbix", {"zabbix", "monitoring"}), L("Ceph", {"ceph", "storage"}),
        L("PostgreSQL", {"postgresql", "database"}), L("Kubernetes", {"kubernetes", "containers"}),
        L("Linux Kernel", {"linux", "kernel"}),
        L("Network segmentation cheat sheet", {"networking", "security", "cheatsheet"}),
        L("SRE Checklist", {"sre", "checklist"}), L("System Design (karanpratapsingh)", {"system-design"}),
        L("System Design Notebook", {"system-design"}),
        L("Full Stack FastAPI Template", {"fastapi", "python", "template"})>>)

AwesomeLists ==
    Of("curatedList", <<
        L("System Design 101", {"system-design", "visual"}), L("Awesome System Design Resources", {"system-design"}),
        L("Awesome Scalability", {"system-design", "scalability", "distributed-systems"}),
        L("Awesome Design Patterns", {"software-design", "patterns"}), L("Awesome Docker", {"docker"}),
        L("Awesome Compose", {"docker", "compose"}), L("System Design Primer", {"system-design"}),
        L("Awesome OpenTofu", {"iac", "opentofu", "terraform"}),
        L("Awesome Cheatsheets", {"cheatsheets", "programming"}), L("How They DevOps", {"devops", "case-studies"}),
        L("How They SRE", {"sre", "case-studies"}), L("Free for Dev", {"tools", "free-tier"}),
        L("Awesome SRE", {"sre"}), L("Awesome CursorRules", {"ai", "tooling"}), L("DevOps Resources", {"devops"})>>)

MoreAwesomeLists ==
    Of("curatedList", <<
        L("Awesome Privacy", {"privacy", "security"}), L("Awesome Prometheus", {"monitoring", "prometheus"}),
        L("Awesome DevSecOps", {"devsecops", "security"}), L("Awesome Sysadmin", {"sysadmin", "foss"})>>)

Exercises ==
    Of("exercise", <<
        L("DevOps Exercises", {"devops", "interview-prep"}),
        L("ProjectLearn - Project Based Learning", {"learning", "projects"}),
        L("Test Your Sysadmin Skills", {"sysadmin", "linux"})>>)

Roadmaps ==
    Of("roadmap", <<
        L("DevOps Roadmap", {"devops"}), L("Infraverse", {"infrastructure", "devops"})>>)

AiDirectories ==
    Of("catalog", <<
        D("There's An AI For That", {"ai", "directory"}), D("Aixploria", {"ai", "directory"}),
        D("AI Tools Directory", {"ai", "directory"}), D("TopAI.tools", {"ai", "directory"}),
        D("Product Hunt", {"launches", "directory"}), D("Trendshift - GitHub Trending", {"github", "trending"}),
        D("Hugging Face", {"ai", "models", "datasets"}), D("OpenRouter Models", {"ai", "models", "llm"}),
        D("LMArena", {"ai", "llm", "leaderboard"}), D("Artificial Analysis", {"ai", "llm", "benchmarks"}),
        D("LLM Stats", {"ai", "llm", "benchmarks"}), D("Awesome LLM Apps", {"ai", "llm", "agents"}),
        D("500 AI Agents Projects", {"ai", "agents"}), D("Free AI Agents Resources", {"ai", "agents", "learning"}),
        D("Awesome AI Agents", {"ai", "agents"})>>)

McpServers ==
    Of("mcpServer", <<
        D("Awesome MCP Servers (punkpeye)", {"mcp", "agents"}), D("Awesome MCP Servers (wong2)", {"mcp", "agents"}),
        D("MCP Registry", {"mcp", "registry"}), D("MCP Reference Servers", {"mcp", "reference"}),
        D("MCP.so", {"mcp", "directory"}), D("Glama MCP Directory", {"mcp", "directory"}),
        D("Smithery", {"mcp", "registry", "hosting"}), D("MCPMarket", {"mcp", "directory"}),
        D("PulseMCP", {"mcp", "directory"}), L("Agent Gateway", {"mcp", "gateway", "a2a"})>>)

MoreAiDirectories ==
    Of("catalog", <<
        D("Free LLM API Resources", {"llm", "free-tier", "api"})>>)

Frameworks ==
    Of("aiFramework", <<
        L("LangChain", {"agents", "llm", "python", "javascript"}), L("LlamaIndex", {"rag", "llm", "python"}),
        L("Pydantic AI", {"agents", "python", "type-safe"}), L("CrewAI", {"agents", "multi-agent", "python"}),
        L("Microsoft AutoGen", {"agents", "multi-agent", "python"}),
        L("Google Agent Development Kit (ADK)", {"agents", "google", "python"}),
        L("OpenAI Agents SDK", {"agents", "openai", "python"}), L("Mastra", {"agents", "typescript"}),
        L("Agno", {"agents", "multi-agent", "python"}), L("Haystack", {"rag", "search", "python"}),
        L("Dify", {"llm", "low-code", "rag", "self-hosted"}), L("Pipecat", {"voice", "realtime", "agents"}),
        L("Vision Agents", {"video", "realtime", "agents"}), L("vLLM", {"inference", "serving", "harness"}),
        L("LiteLLM", {"llm", "proxy", "harness"}), L("Axolotl", {"fine-tuning", "training"}),
        L("Docling", {"rag", "document-parsing"}), L("design.md", {"design", "agents", "google"}),
        L("nanobot", {"agents", "mcp"}), L("Agent Foundry", {"agents", "scaffold"}),
        L("CodeSpeak", {"codegen", "agents"})>>)

MoreFrameworks ==
    Of("aiFramework", <<
        D("Awesome design.md", {"design", "agents"})>>)

Apps ==
    Of("aiApp", <<
        L("HuggingChat", {"chat", "open-weights"}), L("UI-TARS Desktop", {"computer-use", "agents", "desktop"}),
        L("5ire", {"chat", "mcp", "desktop"}), L("Agent Zero", {"agents", "general-purpose"}),
        L("AI Infrastructure Agent", {"agents", "infrastructure", "devops"}),
        L("Stakpak Agent", {"agents", "devops", "iac"}), L("oh-my-openagent", {"agents"}),
        L("zeroclaw", {"agents", "codegen"}), L("Hallmark", {"images", "marketing", "design"}),
        D("Refero Design Styles", {"design", "reference"}), L("Hermes Atlas", {"research", "knowledge"}),
        L("Celesto", {"app-builder", "agents"}), L("OpenLegion", {"agents", "multi-agent"}),
        L("OpenFang", {"agents", "cli"}), L("Roomote", {"agents", "codegen"}), L("Pony Alpha", {"agents", "codegen"}),
        L("autoresearch", {"research", "agents"}), L("MiroFish", {"research", "agents"}),
        L("edgequake", {"edge", "inference"}), L("tenkai", {"mcp", "agents"}), L("ClawX", {"finance", "agents"})>>)

MoreApps ==
    Of("aiApp", <<
        L("AI-Trader", {"finance", "agents", "research"}), L("TradingAgents-CN", {"finance", "agents", "research"}),
        L("MoneyPrinterV2", {"video", "content", "automation"}),
        L("AiToEarn", {"content", "publishing", "automation"}), L("pinchtab", {"browser", "agents"}),
        L("ACE-Step", {"audio", "music", "model"}), L("DiffRhythm", {"audio", "music", "model"}),
        L("MusicLang", {"audio", "music"}), L("HeartMuLa heartlib", {"audio", "music"}),
        L("HeartMuLa ComfyUI", {"audio", "music", "comfyui"})>>)

Skills ==
    Of("aiSkill", <<
        D("Anthropic Skills", {"skills", "claude", "reference"}),
        L("Agent Skills (Claude docs)", {"skills", "claude", "documentation"}),
        D("agent-skills.md", {"skills", "spec"}), D("skills.sh", {"skills", "directory"}),
        D("SkillsMP", {"skills", "marketplace"}), L("autoskills", {"skills", "codegen"})>>)

Automations ==
    Of("automation", <<
        L("n8n", {"workflow", "self-hosted", "low-code"}),
        L("Activepieces", {"workflow", "no-code", "self-hosted", "mcp"}),
        L("Windmill", {"workflow", "scripts", "self-hosted"}), L("Kestra", {"orchestration", "data", "self-hosted"}),
        L("Pipedream", {"workflow", "integrations"}), L("Node-RED", {"flow", "iot", "self-hosted"}),
        L("Huginn", {"agents", "self-hosted"}), L("Trigger.dev", {"jobs", "typescript", "self-hosted"}),
        L("Automatisch", {"workflow", "no-code", "self-hosted"}), L("Make", {"workflow", "no-code", "saas"})>>)

Models ==
    Of("aiModel", <<
        L("OpenAI GPT", {"openai", "llm", "proprietary"}), L("Anthropic Claude", {"anthropic", "llm", "proprietary"}),
        L("Google Gemini", {"google", "llm", "multimodal", "proprietary"}),
        L("Meta Llama", {"meta", "llm", "open-weights"}), L("Alibaba Qwen", {"alibaba", "llm", "open-weights"}),
        L("DeepSeek", {"deepseek", "llm", "open-weights", "reasoning"}),
        L("Mistral AI", {"mistral", "llm", "open-weights"}), L("xAI Grok", {"xai", "llm", "proprietary"}),
        L("Moonshot Kimi", {"moonshot", "llm", "open-weights"}), L("Zhipu GLM", {"zhipu", "llm", "open-weights"}),
        L("Cohere Command", {"cohere", "llm", "rag", "proprietary"}), L("Ollama", {"harness", "local", "inference"}),
        L("llama.cpp", {"harness", "local", "inference"}), L("LM Studio", {"harness", "local", "desktop"}),
        L("Jan", {"harness", "local", "desktop"}), L("SGLang", {"harness", "serving", "inference"}),
        L("text-generation-webui", {"harness", "local", "ui"}), L("LocalAI", {"harness", "self-hosted", "inference"}),
        L("Groq", {"harness", "inference", "hosted"}), L("Together AI", {"harness", "inference", "hosted"}),
        L("Fireworks AI", {"harness", "inference", "hosted"})>>)

Services ==
    Of("devService", <<
        L("ngrok", {"tunnel", "ingress"}), L("Cloudflare Tunnel", {"tunnel", "free-tier"}),
        L("Tailscale", {"tunnel", "vpn", "free-tier"}), L("localtonet", {"tunnel", "free-tier"}),
        L("Pinggy", {"tunnel", "ssh"}), L("bore", {"tunnel", "self-hosted", "rust"}),
        L("frp", {"tunnel", "reverse-proxy", "self-hosted"}),
        L("Netlify", {"hosting", "static", "jamstack", "free-tier"}),
        L("Vercel", {"hosting", "frontend", "serverless", "free-tier"}),
        L("Cloudflare Pages", {"hosting", "static", "edge", "free-tier"}),
        L("Render", {"paas", "hosting", "free-tier"}), L("Railway", {"paas", "hosting"}),
        L("Fly.io", {"paas", "hosting", "edge"}), L("Shuttle", {"paas", "rust", "deploy"}),
        L("Coolify", {"paas", "self-hosted", "deploy"}), L("Dokploy", {"paas", "self-hosted", "docker"}),
        L("DeployStack", {"deploy", "docker", "iac"}), L("Caddy", {"web-server", "https", "self-hosted"})>>)

Starred ==
    Of("aiApp", <<
        L("AutoGPT", {"agents", "autonomous"}), L("OpenHands", {"agents", "codegen"}),
        L("opencode", {"agents", "codegen", "cli"}), L("OpenAI Codex CLI", {"agents", "codegen", "cli", "openai"}),
        L("Claude Code", {"agents", "codegen", "cli", "anthropic", "mcp"}),
        L("Gemini CLI", {"agents", "cli", "google"}), L("Open WebUI", {"chat", "self-hosted", "ui"}),
        L("LobeChat", {"chat", "self-hosted", "ui"}), L("NextChat", {"chat", "ui"})>>) \o
    Of("aiModel", <<
        L("GPT4All", {"harness", "local", "desktop"})>>) \o
    Of("aiApp", <<
        L("ComfyUI", {"images", "video", "diffusion", "ui"}),
        L("Stable Diffusion web UI", {"images", "diffusion", "ui"})>>) \o
    Of("aiFramework", <<
        L("Langflow", {"low-code", "agents", "rag"}), L("RAGFlow", {"rag", "document-parsing", "self-hosted"}),
        L("Crawl4AI", {"rag", "scraping", "crawler"}), L("browser-use", {"agents", "browser", "automation"}),
        L("Unsloth", {"fine-tuning", "training"}), L("LLaMA-Factory", {"fine-tuning", "training"}),
        L("GitHub Spec Kit", {"agents", "codegen", "spec-driven"})>>) \o
    Of("catalog", <<
        D("Awesome ChatGPT Prompts", {"prompts", "llm"})>>)

Leftover ==
    Of("exercise", <<
        L("LLM Course", {"ai", "llm", "learning"}), L("Generative AI for Beginners", {"ai", "llm", "learning"}),
        L("AI Agents for Beginners", {"ai", "agents", "learning"})>>) \o
    Of("roadmap", <<
        D("ProjectLearn", {"learning", "projects"}), L("LPI Certifications", {"linux", "certification"})>>) \o
    Of("exercise", <<
        L("Kubernetes The Hard Way", {"kubernetes", "hands-on"}), L("Secure Code Game", {"security", "hands-on"}),
        L("AWS AI Practitioner", {"aws", "ai", "certification"}),
        D("Google Developer Codelabs", {"google", "hands-on"}), D("MLU-Explain", {"ml", "visual", "learning"}),
        D("Polo Club of Data Science", {"ml", "visual", "learning"})>>) \o
    Of("documentation", <<
        L("Wazuh", {"security", "siem", "monitoring"}), L("OWASP ZAP", {"security", "appsec", "scanner"}),
        L("Qubes OS", {"security", "os", "isolation"})>>) \o
    Of("curatedList", <<
        D("CNCF Landscape", {"cloud-native", "kubernetes"})>>) \o
    Of("documentation", <<
        L("llms.txt", {"ai", "llm", "standard"})>>) \o
    Of("aiApp", <<
        L("Leonardo.AI", {"images", "design"})>>)

EXTERNAL_RESOURCE_LINKS ==
    OfficialDocs \o AwesomeLists \o MoreAwesomeLists \o Exercises \o Roadmaps \o AiDirectories \o McpServers \o MoreAiDirectories \o
    Frameworks \o MoreFrameworks \o Apps \o MoreApps \o Skills \o Automations \o Models \o Services \o Starred \o Leftover

-----------------------------------------------------------------------------
(***************************************************************************)
(* The screens of the Knowledge Hub: the cheatsheets with their filter and *)
(* the lists of links with their search and tags.  A text typed is reduced *)
(* to the commands, or to the names and tags, that contain it.             *)
(***************************************************************************)

CONSTANTS
    Texts,      \* what a text may match: a record of names (or commands) and tags; NoText is none
    TagChoices, \* the tags the user picks
    MaxTags     \* bound: tags picked at once

NoText == [names |-> {}, tags |-> {}]

VARIABLES
    hub,     \* the screen shown
    sheet,   \* the cheatsheet selected
    text,    \* what the text typed matches
    picked   \* the tags picked

hubVars == <<hub, sheet, text, picked>>

\* The screen of a kind of link.
Kinds == [documentation |-> {"documentation"}, reference_lists |-> {"curatedList"}, study_practice |-> {"exercise", "roadmap"},
          mcp_servers |-> {"mcpServer"}, ai_frameworks |-> {"aiFramework"}, ai_software |-> {"aiApp"}, ai_skills |-> {"aiSkill"},
          automation |-> {"automation"}, ai_models |-> {"aiModel"}, dev_services |-> {"devService"}]
Screens == DOMAIN Kinds \cup {"ai_catalogs", "cheatsheets"}
Links(screen) ==
    SelectSeq(EXTERNAL_RESOURCE_LINKS,
              LAMBDA l : IF screen = "ai_catalogs" THEN l.isDirectory ELSE screen \in DOMAIN Kinds /\ l.type \in Kinds[screen])

HubInit ==
    /\ hub \in Screens
    /\ sheet = 1
    /\ text = NoText
    /\ picked = {}

-----------------------------------------------------------------------------
(* The lists of links.                                                     *)

AllTags == UNION {l.tags : l \in Range(Links(hub))}
MatchesText(l) == text = NoText \/ l.name \in text.names \/ l.tags \cap text.tags # {}
AnyTag(l) == picked = {} \/ picked \cap l.tags # {}  \* mutant: one of the tags is enough
MatchesTags(l) == picked \subseteq l.tags
Filtered == SelectSeq(Links(hub), LAMBDA l : MatchesText(l) /\ MatchesTags(l))
\* Study & Practice shows its links under the heading of their kind.
Grouped == FlattenSeq([k \in DOMAIN RESOURCE_TYPES |-> SelectSeq(Filtered, LAMBDA l : l.type = RESOURCE_TYPES[k])])
Cards == IF hub = "study_practice" THEN Grouped ELSE Filtered
HasFilter == text # NoText \/ picked # {}

Search(t) ==
    /\ text' = t
    /\ UNCHANGED <<hub, sheet, picked>>
ToggleTag(t) ==
    /\ t \in AllTags \cap TagChoices
    /\ t \in picked \/ Cardinality(picked) < MaxTags
    /\ picked' = IF t \in picked THEN picked \ {t} ELSE picked \cup {t}
    /\ UNCHANGED <<hub, sheet, text>>
ClearFilters ==
    /\ HasFilter
    /\ text' = NoText /\ picked' = {}
    /\ UNCHANGED <<hub, sheet>>

-----------------------------------------------------------------------------
(* The cheatsheets.                                                        *)

FilterSections(page) ==
    IF text = NoText THEN page.sections
    ELSE SelectSeq([k \in DOMAIN page.sections |-> Section(page.sections[k].title, SelectSeq(page.sections[k].commands, LAMBDA c : c \in text.names))],
                   LAMBDA s : s.commands # <<>>)
Sections == FilterSections(CHEATSHEET_PAGES[sheet])

SelectPage(k) ==
    /\ hub = "cheatsheets"
    /\ sheet' = k /\ text' = NoText
    /\ UNCHANGED <<hub, picked>>

\* Another screen begins anew.
OpenHub(s) ==
    /\ hub' = s /\ sheet' = 1 /\ text' = NoText /\ picked' = {}

HubNext ==
    \/ \E t \in Texts : Search(t)
    \/ \E t \in TagChoices : hub # "cheatsheets" /\ ToggleTag(t)
    \/ ClearFilters /\ hub # "cheatsheets"
    \/ \E k \in DOMAIN CHEATSHEET_PAGES : SelectPage(k)
    \/ \E s \in Screens : OpenHub(s)

-----------------------------------------------------------------------------
\* Every link is on the screen of its kind or among the catalogs, on no two screens of a kind, and no two cards
\* of a list are taken for one another (ResourceLinkListView.tsx keys them by their address, here the name).
HubComplete ==
    /\ \A l \in Range(EXTERNAL_RESOURCE_LINKS) :
        /\ \E s \in Screens : l \in Range(Links(s))
        /\ Cardinality({s \in DOMAIN Kinds : l \in Range(Links(s))}) <= 1
    /\ IsInjective([k \in DOMAIN EXTERNAL_RESOURCE_LINKS |-> EXTERNAL_RESOURCE_LINKS[k].name])

\* What is hidden can be shown again: cards are missing only while the clear button stands, each card is one that
\* has every picked tag, and the headings of a grouped list lose none.
NothingLost ==
    hub # "cheatsheets" =>
        /\ Range(Cards) # Range(Links(hub)) => HasFilter
        /\ \A l \in Range(Cards) : picked \subseteq l.tags
        /\ Range(Cards) = Range(Filtered) /\ Len(Cards) = Len(Filtered)
        /\ Cardinality(picked) = 1 /\ text = NoText => Cards # <<>>

\* A page that is opened is shown whole, a section shown is never empty and stands once, and so do its commands.
PageShown ==
    hub = "cheatsheets" =>
        /\ text = NoText => Sections = CHEATSHEET_PAGES[sheet].sections
        /\ \A k \in DOMAIN Sections : Sections[k].commands # <<>> /\ IsInjective(Sections[k].commands)
        /\ IsInjective([k \in DOMAIN Sections |-> Sections[k].title])
=============================================================================
